---- MODULE Spec2Model ----
(***************************************************************************)
(* A model of the geval expression engine: lexing of a source text into    *)
(* tokens, the paren-balance and grammar checks, token optimisation, the    *)
(* recursive-descent stage planner with its reordering and constant-folding *)
(* passes, and the stage evaluator.                                         *)
(***************************************************************************)
EXTENDS Integers, Sequences, FiniteSets, TLC

(***************************************************************************)
(* Dynamic values (Go's interface{}).  Every value is a record of the same  *)
(* shape: t is the dynamic type, n/d a number as the fraction n/d in lowest *)
(* terms (booleans use n = 1 / n = 0), s a string, a the elements of a      *)
(* []interface{}.                                                           *)
(***************************************************************************)
Value(t, n, d, s, a) == [t |-> t, n |-> n, d |-> d, s |-> s, a |-> a]

Nil == Value("nil", 0, 1, "", <<>>)

Bool(b) == Value("bool", IF b THEN 1 ELSE 0, 1, "", <<>>)

Str(s) == Value("string", 0, 1, s, <<>>)

Rune(s) == Value("rune", 0, 1, s, <<>>)

Array(a) == Value("array", 0, 1, "", a)

Func(name) == Value("func", 0, 1, name, <<>>)

\* The result of arithmetic that leaves the exactly representable numbers of
\* the model (a non-finite or out-of-range double).
NotANumber == Value("float64", 0, 0, "", <<>>)

\* const shortCircuitHolder int = -1 : an int, never equal to a float64.
shortCircuitHolder == Value("int", -1, 1, "", <<>>)

Abs(x) == IF x < 0 THEN -x ELSE x

RECURSIVE Gcd(_, _)
Gcd(x, y) == IF y = 0 THEN x ELSE Gcd(y, x % y)

\* The largest magnitude of a numerator or denominator the model computes with.
NumberRange == 1048576

\* The float64 n/d, in lowest terms with a positive denominator.
Float(n, d) ==
    IF d = 0 \/ Abs(n) > NumberRange \/ Abs(d) > NumberRange THEN NotANumber
    ELSE LET g == Gcd(Abs(n), Abs(d))
             sg == IF d < 0 THEN -1 ELSE 1
         IN  Value("float64", (sg * n) \div g, Abs(d) \div g, "", <<>>)

Num(k) == Float(k, 1)

IsFinite(v) == v.t = "float64" /\ v.d # 0

\* Truncation of a float64 toward zero (Go's int64(x) conversion).
Trunc(v) == IF v.n >= 0 THEN v.n \div v.d ELSE -((-v.n) \div v.d)

IsIntegral(v) == IsFinite(v) /\ v.d = 1

RECURSIVE IntPow(_, _)
IntPow(b, e) ==
    IF e = 0 THEN 1
    ELSE LET r == IntPow(b, e - 1)
         IN  IF Abs(r) > NumberRange THEN r ELSE b * r

(***************************************************************************)
(* Tokens and the lexer-state table.                                        *)
(***************************************************************************)
Token(kind, value) == [Kind |-> kind, Value |-> value]

\* The zero value of tExpressionToken (checkExpressionSyntax's lastToken).
ZeroToken == Token("tUNKNOWN", Nil)

LexerState(kind, isEOF, isNullable, validNextKinds) ==
    [kind |-> kind, isEOF |-> isEOF, isNullable |-> isNullable,
     validNextKinds |-> validNextKinds]

validLexerStates ==
    << LexerState("tUNKNOWN", FALSE, TRUE,
           {"tPREFIX", "tNUMERIC", "tBOOLEAN", "tVARIABLE", "tPATTERN",
            "tFUNCTION", "tACCESSOR", "tSTRING", "tTIME", "tCLAUSE"}),
       LexerState("tCLAUSE", FALSE, TRUE,
           {"tPREFIX", "tNUMERIC", "tBOOLEAN", "tVARIABLE", "tPATTERN",
            "tFUNCTION", "tACCESSOR", "tSTRING", "tTIME", "tCLAUSE",
            "tCLAUSE_CLOSE"}),
       LexerState("tCLAUSE_CLOSE", TRUE, TRUE,
           {"tCOMPARATOR", "tMODIFIER", "tNUMERIC", "tBOOLEAN", "tVARIABLE",
            "tSTRING", "tPATTERN", "tTIME", "tCLAUSE", "tCLAUSE_CLOSE",
            "tLOGICALOP", "tTERNARY", "tSEPARATOR"}),
       LexerState("tNUMERIC", TRUE, FALSE,
           {"tMODIFIER", "tCOMPARATOR", "tLOGICALOP", "tCLAUSE_CLOSE",
            "tTERNARY", "tSEPARATOR"}),
       LexerState("tBOOLEAN", TRUE, FALSE,
           {"tMODIFIER", "tCOMPARATOR", "tLOGICALOP", "tCLAUSE_CLOSE",
            "tTERNARY", "tSEPARATOR"}),
       LexerState("tSTRING", TRUE, FALSE,
           {"tMODIFIER", "tCOMPARATOR", "tLOGICALOP", "tCLAUSE_CLOSE",
            "tTERNARY", "tSEPARATOR"}),
       LexerState("tTIME", TRUE, FALSE,
           {"tMODIFIER", "tCOMPARATOR", "tLOGICALOP", "tCLAUSE_CLOSE",
            "tSEPARATOR"}),
       LexerState("tPATTERN", TRUE, FALSE,
           {"tMODIFIER", "tCOMPARATOR", "tLOGICALOP", "tCLAUSE_CLOSE",
            "tSEPARATOR"}),
       LexerState("tVARIABLE", TRUE, FALSE,
           {"tMODIFIER", "tCOMPARATOR", "tLOGICALOP", "tCLAUSE_CLOSE",
            "tTERNARY", "tSEPARATOR"}),
       LexerState("tMODIFIER", FALSE, FALSE,
           {"tPREFIX", "tNUMERIC", "tVARIABLE", "tFUNCTION", "tACCESSOR",
            "tSTRING", "tBOOLEAN", "tCLAUSE", "tCLAUSE_CLOSE"}),
       LexerState("tCOMPARATOR", FALSE, FALSE,
           {"tPREFIX", "tNUMERIC", "tBOOLEAN", "tVARIABLE", "tFUNCTION",
            "tACCESSOR", "tSTRING", "tTIME", "tCLAUSE", "tCLAUSE_CLOSE",
            "tPATTERN"}),
       LexerState("tLOGICALOP", FALSE, FALSE,
           {"tPREFIX", "tNUMERIC", "tBOOLEAN", "tVARIABLE", "tFUNCTION",
            "tACCESSOR", "tSTRING", "tTIME", "tCLAUSE", "tCLAUSE_CLOSE"}),
       LexerState("tPREFIX", FALSE, FALSE,
           {"tNUMERIC", "tBOOLEAN", "tVARIABLE", "tFUNCTION", "tACCESSOR",
            "tCLAUSE", "tCLAUSE_CLOSE"}),
       LexerState("tTERNARY", FALSE, FALSE,
           {"tPREFIX", "tNUMERIC", "tBOOLEAN", "tSTRING", "tTIME",
            "tVARIABLE", "tFUNCTION", "tACCESSOR", "tCLAUSE", "tSEPARATOR"}),
       LexerState("tFUNCTION", FALSE, FALSE, {"tCLAUSE"}),
       LexerState("tACCESSOR", TRUE, FALSE,
           {"tCLAUSE", "tMODIFIER", "tCOMPARATOR", "tLOGICALOP",
            "tCLAUSE_CLOSE", "tTERNARY", "tSEPARATOR"}),
       LexerState("tSEPARATOR", FALSE, TRUE,
           {"tPREFIX", "tNUMERIC", "tBOOLEAN", "tSTRING", "tTIME",
            "tVARIABLE", "tFUNCTION", "tACCESSOR", "tCLAUSE"}) >>

\* A state that lets every kind follow.
canTransitionToAny(this, kind) == TRUE

canTransitionTo(this, kind) == kind \in this.validNextKinds

\* The first state of the table with the given kind; the table has a row for
\* every kind a token can carry, so the lookup's error return is not taken.
getLexerStateForToken(kind) ==
    LET found == {i \in DOMAIN validLexerStates : validLexerStates[i].kind = kind}
    IN  validLexerStates[CHOOSE i \in found : \A j \in found : i <= j]

(***************************************************************************)
(* Operator symbol tables: lexeme -> tOperatorSymbol.                       *)
(***************************************************************************)
comparatorSymbols ==
    [sym \in {"==", "!=", ">", ">=", "<", "<=", "=~", "!~", "in"} |->
        CASE sym = "==" -> "tEQ"  [] sym = "!=" -> "tNEQ"
          [] sym = ">"  -> "tGT"  [] sym = ">=" -> "tGTE"
          [] sym = "<"  -> "tLT"  [] sym = "<=" -> "tLTE"
          [] sym = "=~" -> "tREQ" [] sym = "!~" -> "tNREQ"
          [] sym = "in" -> "tIN"]

logicalSymbols == [sym \in {"&&", "||"} |-> IF sym = "&&" THEN "tAND" ELSE "tOR"]

logicalAndSymbols == [sym \in {"&&"} |-> "tAND"]

logicalOrSymbols == [sym \in {"||"} |-> "tOR"]

bitwiseSymbols ==
    [sym \in {"^", "&", "|"} |->
        CASE sym = "^" -> "tBITWISE_XOR" [] sym = "&" -> "tBITWISE_AND"
          [] sym = "|" -> "tBITWISE_OR"]

bitwiseShiftSymbols ==
    [sym \in {">>", "<<"} |->
        IF sym = ">>" THEN "tBITWISE_RSHIFT" ELSE "tBITWISE_LSHIFT"]

additiveSymbols == [sym \in {"+", "-"} |-> IF sym = "+" THEN "tPLUS" ELSE "tMINUS"]

multiplicativeSymbols ==
    [sym \in {"*", "/", "%"} |->
        CASE sym = "*" -> "tMULTIPLY" [] sym = "/" -> "tDIVIDE"
          [] sym = "%" -> "tMODULUS"]

exponentialSymbolsS == [sym \in {"**"} |-> "tEXPONENT"]

prefixSymbols ==
    [sym \in {"-", "!", "~"} |->
        CASE sym = "-" -> "tNEGATE" [] sym = "!" -> "tINVERT"
          [] sym = "~" -> "tBITWISE_NOT"]

ternarySymbols ==
    [sym \in {"?", ":", "??"} |->
        CASE sym = "?" -> "tTERNARY_TRUE" [] sym = ":" -> "tTERNARY_FALSE"
          [] sym = "??" -> "tCOALESCE"]

modifierSymbols ==
    [sym \in {"+", "-", "*", "/", "%", "**", "&", "|", "^", ">>", "<<"} |->
        CASE sym = "+"  -> "tPLUS"        [] sym = "-"  -> "tMINUS"
          [] sym = "*"  -> "tMULTIPLY"    [] sym = "/"  -> "tDIVIDE"
          [] sym = "%"  -> "tMODULUS"     [] sym = "**" -> "tEXPONENT"
          [] sym = "&"  -> "tBITWISE_AND" [] sym = "|"  -> "tBITWISE_OR"
          [] sym = "^"  -> "tBITWISE_XOR" [] sym = ">>" -> "tBITWISE_RSHIFT"
          [] sym = "<<" -> "tBITWISE_LSHIFT"]

separatorSymbols == [sym \in {","} |-> "tSEPARATE"]

(***************************************************************************)
(* The lexer.  A source text is a sequence of lexemes (the maximal runs    *)
(* the character scanner of readToken delimits); readToken classifies one  *)
(* lexeme under the current lexer state.                                    *)
(***************************************************************************)
\* strconv.ParseFloat on the numeric lexemes of the model.
ParseFloat ==
    [lexeme \in {"0", "1", "2", "3", "4", "5", "7", "8", "10"} |->
        CASE lexeme = "0" -> 0 [] lexeme = "1" -> 1 [] lexeme = "2" -> 2
          [] lexeme = "3" -> 3 [] lexeme = "4" -> 4 [] lexeme = "5" -> 5
          [] lexeme = "7" -> 7 [] lexeme = "8" -> 8 [] lexeme = "10" -> 10]

\* Runs of digits and periods that ParseFloat rejects.
MalformedNumerics == {"1..2"}

\* Lexemes that start with a letter and continue with letters, digits, '_', '.'.
Identifiers ==
    {"true", "false", "in", "f", "x", "y", "z", "w", "v", "missing",
     "a.B", "a.b", "a."}

\* strings.Split(tokenString, ".") for the dotted identifiers.
Splits ==
    [lexeme \in {"a.B", "a.b", "a."} |->
        CASE lexeme = "a.B" -> <<"a", "B">> [] lexeme = "a.b" -> <<"a", "b">>
          [] lexeme = "a." -> <<"a", "">>]

\* Segments whose first rune is not its own upper case.
UnexportedSegments == {"b"}

\* Quoted literals: the text between the quotes.
QuotedLiterals ==
    [lexeme \in {"'foo'", "'bar'", "'2014-01-02'"} |->
        CASE lexeme = "'foo'" -> "foo" [] lexeme = "'bar'" -> "bar"
          [] lexeme = "'2014-01-02'" -> "2014-01-02"]

\* tryParseTime: the quoted texts one of the time formats accepts, with the
\* Unix seconds of the parsed time (in days here, the unit does not matter).
tryParseTime == [text \in {"2014-01-02"} |-> 16072]

\* The function table handed to the compiler: name -> tExpressionFunction.
functions == {"f"}

ReadResult(token, err, found) == [token |-> token, err |-> err, found |-> found]

readToken(lexeme, state, funcs) ==
    CASE lexeme \in DOMAIN ParseFloat ->
            ReadResult(Token("tNUMERIC", Num(ParseFloat[lexeme])), "", TRUE)
      [] lexeme \in MalformedNumerics ->
            ReadResult(ZeroToken, "Unable to parse numeric value", FALSE)
      [] lexeme = "," -> ReadResult(Token("tSEPARATOR", Str(",")), "", TRUE)
      [] lexeme \in Identifiers ->
            IF lexeme \in DOMAIN Splits
            THEN LET splits == Splits[lexeme] IN
                 IF splits[Len(splits)] = ""
                 THEN ReadResult(ZeroToken, "Hanging accessor", FALSE)
                 ELSE IF \E i \in 2..Len(splits) : splits[i] \in UnexportedSegments
                 THEN ReadResult(ZeroToken, "Unable to access unexported field", FALSE)
                 ELSE ReadResult(Token("tACCESSOR",
                          Array([i \in 1..Len(splits) |-> Str(splits[i])])), "", TRUE)
            ELSE IF lexeme \in funcs
            THEN ReadResult(Token("tFUNCTION", Func(lexeme)), "", TRUE)
            ELSE IF lexeme = "in"
            THEN ReadResult(Token("tCOMPARATOR", Str("in")), "", TRUE)
            ELSE IF lexeme \in {"true", "false"}
            THEN ReadResult(Token("tBOOLEAN", Bool(lexeme = "true")), "", TRUE)
            ELSE ReadResult(Token("tVARIABLE", Str(lexeme)), "", TRUE)
      [] lexeme \in DOMAIN QuotedLiterals ->
            LET text == QuotedLiterals[lexeme] IN
            IF text \in DOMAIN tryParseTime
            THEN ReadResult(Token("tTIME", Value("time", tryParseTime[text], 1, "", <<>>)), "", TRUE)
            ELSE ReadResult(Token("tSTRING", Str(text)), "", TRUE)
      [] lexeme = "(" -> ReadResult(Token("tCLAUSE", Rune("(")), "", TRUE)
      [] lexeme = ")" -> ReadResult(Token("tCLAUSE_CLOSE", Rune(")")), "", TRUE)
      [] OTHER ->
            IF canTransitionTo(state, "tPREFIX") /\ lexeme \in DOMAIN prefixSymbols
            THEN ReadResult(Token("tPREFIX", Str(lexeme)), "", TRUE)
            ELSE IF lexeme \in DOMAIN modifierSymbols
            THEN ReadResult(Token("tMODIFIER", Str(lexeme)), "", TRUE)
            ELSE IF lexeme \in DOMAIN logicalSymbols
            THEN ReadResult(Token("tLOGICALOP", Str(lexeme)), "", TRUE)
            ELSE IF lexeme \in DOMAIN comparatorSymbols
            THEN ReadResult(Token("tCOMPARATOR", Str(lexeme)), "", TRUE)
            ELSE IF lexeme \in DOMAIN ternarySymbols
            THEN ReadResult(Token("tTERNARY", Str(lexeme)), "", TRUE)
            ELSE ReadResult(ZeroToken, "Invalid token", FALSE)

\* checkBalance: +1 on tCLAUSE, -1 on tCLAUSE_CLOSE, the total must be zero.
RECURSIVE countParens(_, _)
countParens(tokens, i) ==
    IF i > Len(tokens) THEN 0
    ELSE (CASE tokens[i].Kind = "tCLAUSE" -> 1
            [] tokens[i].Kind = "tCLAUSE_CLOSE" -> -1
            [] OTHER -> 0) + countParens(tokens, i + 1)

\* A balance check that lets every count pass.
checkBalanceAnyCount(tokens) == ""

checkBalance(tokens) ==
    IF countParens(tokens, 1) # 0 THEN "Unbalanced parenthesis" ELSE ""

\* One iteration of the loop of parseTokens on the next lexeme.
ParseState(tokens, state, err) == [tokens |-> tokens, state |-> state, err |-> err]

parseStep(ps, lexeme, funcs) ==
    LET r == readToken(lexeme, ps.state, funcs) IN
    IF r.err # "" THEN ParseState(ps.tokens, ps.state, r.err)
    ELSE ParseState(Append(ps.tokens, r.token), getLexerStateForToken(r.token.Kind), "")

RECURSIVE parseLoop(_, _, _, _)
parseLoop(expression, i, ps, funcs) ==
    IF i > Len(expression) \/ ps.err # "" THEN ps
    ELSE parseLoop(expression, i + 1, parseStep(ps, expression[i], funcs), funcs)

\* The end of parseTokens: the balance check on what was read.
parseEnd(ps) ==
    IF checkBalance(ps.tokens) # ""
    THEN ParseState(<<>>, ps.state, checkBalance(ps.tokens))
    ELSE ps

parseTokens(expression, funcs) ==
    LET ps == parseLoop(expression, 1, ParseState(<<>>, validLexerStates[1], ""), funcs)
    IN  IF ps.err # "" THEN ps ELSE parseEnd(ps)

(***************************************************************************)
(* The grammar checker and the token optimiser.                             *)
(***************************************************************************)
\* What checkExpressionSyntax returns: the error ("" for nil), the state kind
\* and token kind the message names, the name in "Undefined function <name>",
\* and how many tokens the loop had examined when it returned.
SyntaxResult(err, from, to, name, examined) ==
    [err |-> err, from |-> from, to |-> to, name |-> name, examined |-> examined]

\* A loop body that takes every refused tCLAUSE for a call of an undefined
\* function, whatever the token before it.
checkSyntaxTokenAnyClause(state, lastToken, token, examined) ==
    IF ~canTransitionTo(state, token.Kind)
    THEN IF token.Kind = "tCLAUSE"
         THEN SyntaxResult("Undefined function", state.kind, token.Kind,
                           lastToken.Value.s, examined)
         ELSE SyntaxResult("Cannot transition token types", state.kind,
                           token.Kind, "", examined)
    ELSE LET next == getLexerStateForToken(token.Kind) IN
         IF ~next.isNullable /\ token.Value = Nil
         THEN SyntaxResult("cannot have a nil value", next.kind, token.Kind, "", examined)
         ELSE SyntaxResult("", state.kind, token.Kind, "", examined)

\* The body of the loop of checkExpressionSyntax for one token: the error it
\* returns, if any, and the state it moves to.
checkSyntaxToken(state, lastToken, token, examined) ==
    IF ~canTransitionTo(state, token.Kind)
    THEN IF lastToken.Kind = "tVARIABLE" /\ token.Kind = "tCLAUSE"
         THEN SyntaxResult("Undefined function", state.kind, token.Kind,
                           lastToken.Value.s, examined)
         ELSE SyntaxResult("Cannot transition token types", state.kind,
                           token.Kind, "", examined)
    ELSE LET next == getLexerStateForToken(token.Kind) IN
         IF ~next.isNullable /\ token.Value = Nil
         THEN SyntaxResult("cannot have a nil value", next.kind, token.Kind, "", examined)
         ELSE SyntaxResult("", state.kind, token.Kind, "", examined)

\* An end test that lets every last state pass.
checkSyntaxEndAnyState(state, examined) == SyntaxResult("", "", "", "", examined)

\* After the loop: the last state must allow the end of the expression.
checkSyntaxEnd(state, examined) ==
    IF ~state.isEOF
    THEN SyntaxResult("Unexpected end of expression", state.kind, "", "", examined)
    ELSE SyntaxResult("", "", "", "", examined)

RECURSIVE checkSyntaxLoop(_, _, _, _)
checkSyntaxLoop(tokens, i, state, lastToken) ==
    IF i > Len(tokens) THEN checkSyntaxEnd(state, i - 1)
    ELSE LET step == checkSyntaxToken(state, lastToken, tokens[i], i) IN
         IF step.err # "" THEN step
         ELSE checkSyntaxLoop(tokens, i + 1, getLexerStateForToken(tokens[i].Kind),
                              tokens[i])

checkExpressionSyntax(tokens) ==
    checkSyntaxLoop(tokens, 1, validLexerStates[1], ZeroToken)

\* regexp.Compile fails on these pattern texts.
InvalidPatterns == {"("}

OptimizeResult(tokens, err) == [tokens |-> tokens, err |-> err]

\* optimizeTokens: a string right of =~ or !~ becomes a compiled pattern.
isRegexComparator(token) ==
    /\ token.Kind = "tCOMPARATOR"
    /\ comparatorSymbols[token.Value.s] \in {"tREQ", "tNREQ"}

optimizeTokens(tokens) ==
    LET hit(i) == /\ i > 1
                  /\ isRegexComparator(tokens[i - 1])
                  /\ tokens[i].Kind = "tSTRING"
        bad == {i \in DOMAIN tokens : hit(i) /\ tokens[i].Value.s \in InvalidPatterns}
        firstBad == CHOOSE i \in bad : \A j \in bad : i <= j
        compiled(i) == Token("tPATTERN", Value("pattern", 0, 1, tokens[i].Value.s, <<>>))
    IN  OptimizeResult(
            [i \in DOMAIN tokens |->
                IF hit(i) /\ (bad = {} \/ i < firstBad) THEN compiled(i) ELSE tokens[i]],
            IF bad = {} THEN "" ELSE "error parsing regexp")

(***************************************************************************)
(* Evaluation stages.  The stage tree lives in a heap: a sequence of stage  *)
(* records addressed by their position, 0 being the nil pointer.            *)
(***************************************************************************)
\* An evaluationOperator: the named function and the value its closure holds.
Operator(fn, arg) == [fn |-> fn, arg |-> arg]

Stage(symbol, leftStage, rightStage, operator, leftTypeCheck, rightTypeCheck, typeCheck, typeErrorFormat) ==
    [symbol |-> symbol, leftStage |-> leftStage, rightStage |-> rightStage,
     operator |-> operator, leftTypeCheck |-> leftTypeCheck,
     rightTypeCheck |-> rightTypeCheck, typeCheck |-> typeCheck,
     typeErrorFormat |-> typeErrorFormat]

stageSymbolMap ==
    [symbol \in {"tEQ", "tNEQ", "tGT", "tLT", "tGTE", "tLTE", "tREQ", "tNREQ",
                 "tAND", "tOR", "tIN", "tBITWISE_OR", "tBITWISE_AND",
                 "tBITWISE_XOR", "tBITWISE_LSHIFT", "tBITWISE_RSHIFT", "tPLUS",
                 "tMINUS", "tMULTIPLY", "tDIVIDE", "tMODULUS", "tEXPONENT",
                 "tNEGATE", "tINVERT", "tBITWISE_NOT", "tTERNARY_TRUE",
                 "tTERNARY_FALSE", "tCOALESCE", "tSEPARATE"} |->
        CASE symbol = "tEQ" -> "equalStage"
          [] symbol = "tNEQ" -> "notEqualStage"
          [] symbol = "tGT" -> "gtStage"
          [] symbol = "tLT" -> "ltStage"
          [] symbol = "tGTE" -> "gteStage"
          [] symbol = "tLTE" -> "lteStage"
          [] symbol = "tREQ" -> "regexStage"
          [] symbol = "tNREQ" -> "notRegexStage"
          [] symbol = "tAND" -> "andStage"
          [] symbol = "tOR" -> "orStage"
          [] symbol = "tIN" -> "inStage"
          [] symbol = "tBITWISE_OR" -> "bitwiseOrStage"
          [] symbol = "tBITWISE_AND" -> "bitwiseAndStage"
          [] symbol = "tBITWISE_XOR" -> "bitwiseXORStage"
          [] symbol = "tBITWISE_LSHIFT" -> "leftShiftStage"
          [] symbol = "tBITWISE_RSHIFT" -> "rightShiftStage"
          [] symbol = "tPLUS" -> "addStage"
          [] symbol = "tMINUS" -> "subtractStage"
          [] symbol = "tMULTIPLY" -> "multiplyStage"
          [] symbol = "tDIVIDE" -> "divideStage"
          [] symbol = "tMODULUS" -> "modulusStage"
          [] symbol = "tEXPONENT" -> "exponentStage"
          [] symbol = "tNEGATE" -> "negateStage"
          [] symbol = "tINVERT" -> "invertStage"
          [] symbol = "tBITWISE_NOT" -> "bitwiseNotStage"
          [] symbol = "tTERNARY_TRUE" -> "ternaryIfStage"
          [] symbol = "tTERNARY_FALSE" -> "ternaryElseStage"
          [] symbol = "tCOALESCE" -> "ternaryElseStage"
          [] symbol = "tSEPARATE" -> "separatorStage"]

TypeChecks(left, right, combined) == [left |-> left, right |-> right, combined |-> combined]

\* findTypeChecks: "nil" stands for a nil check.
findTypeChecks(symbol) ==
    CASE symbol \in {"tGT", "tLT", "tGTE", "tLTE"} ->
            TypeChecks("nil", "nil", "comparatorTypeCheck")
      [] symbol \in {"tREQ", "tNREQ"} -> TypeChecks("isString", "isRegexOrString", "nil")
      [] symbol \in {"tAND", "tOR"} -> TypeChecks("isBool", "isBool", "nil")
      [] symbol = "tIN" -> TypeChecks("nil", "isArray", "nil")
      [] symbol \in {"tBITWISE_LSHIFT", "tBITWISE_RSHIFT", "tBITWISE_OR",
                     "tBITWISE_AND", "tBITWISE_XOR"} ->
            TypeChecks("isFloat64", "isFloat64", "nil")
      [] symbol = "tPLUS" -> TypeChecks("nil", "nil", "additionTypeCheck")
      [] symbol \in {"tMINUS", "tMULTIPLY", "tDIVIDE", "tMODULUS", "tEXPONENT"} ->
            TypeChecks("isFloat64", "isFloat64", "nil")
      [] symbol = "tNEGATE" -> TypeChecks("nil", "isFloat64", "nil")
      [] symbol = "tINVERT" -> TypeChecks("nil", "isBool", "nil")
      [] symbol = "tBITWISE_NOT" -> TypeChecks("nil", "isFloat64", "nil")
      [] symbol = "tTERNARY_TRUE" -> TypeChecks("isBool", "nil", "nil")
      [] OTHER -> TypeChecks("nil", "nil", "nil")

\* The precedencePlanner of each generated precedent, as init() builds them.
\* next is the precedent of the left operand, nextRight that of the right
\* operand ("nil" when the planner leaves it unset).
Planner(validSymbols, validKinds, typeErrorFormat, next, nextRight) ==
    [validSymbols |-> validSymbols, validKinds |-> validKinds,
     typeErrorFormat |-> typeErrorFormat, next |-> next, nextRight |-> nextRight]

Precedents ==
    {"planPrefix", "planExponential", "planMultiplicative", "planAdditive",
     "planShift", "planBitwise", "planComparator", "planLogicalAnd",
     "planLogicalOr", "planTernary", "planSeparator"}

\* The planners with the additive and the multiplicative tables exchanged.
plannersSwapped(name) ==
    CASE name = "planPrefix" ->
            Planner(prefixSymbols, {"tPREFIX"}, "prefixErrorFormat", "nil", "planFunction")
      [] name = "planExponential" ->
            Planner(exponentialSymbolsS, {"tMODIFIER"}, "modifierErrorFormat",
                    "planFunction", "nil")
      [] name = "planMultiplicative" ->
            Planner(additiveSymbols, {"tMODIFIER"}, "modifierErrorFormat",
                    "planExponential", "nil")
      [] name = "planAdditive" ->
            Planner(multiplicativeSymbols, {"tMODIFIER"}, "modifierErrorFormat",
                    "planMultiplicative", "nil")
      [] name = "planShift" ->
            Planner(bitwiseShiftSymbols, {"tMODIFIER"}, "modifierErrorFormat",
                    "planAdditive", "nil")
      [] name = "planBitwise" ->
            Planner(bitwiseSymbols, {"tMODIFIER"}, "modifierErrorFormat",
                    "planShift", "nil")
      [] name = "planComparator" ->
            Planner(comparatorSymbols, {"tCOMPARATOR"}, "comparatorErrorFormat",
                    "planBitwise", "nil")
      [] name = "planLogicalAnd" ->
            Planner(logicalAndSymbols, {"tLOGICALOP"}, "logicalErrorFormat",
                    "planComparator", "nil")
      [] name = "planLogicalOr" ->
            Planner(logicalOrSymbols, {"tLOGICALOP"}, "logicalErrorFormat",
                    "planLogicalAnd", "nil")
      [] name = "planTernary" ->
            Planner(ternarySymbols, {"tTERNARY"}, "ternaryErrorFormat",
                    "planLogicalOr", "nil")
      [] name = "planSeparator" ->
            Planner(separatorSymbols, {"tSEPARATOR"}, "", "planTernary", "nil")

planners(name) ==
    CASE name = "planPrefix" ->
            Planner(prefixSymbols, {"tPREFIX"}, "prefixErrorFormat", "nil", "planFunction")
      [] name = "planExponential" ->
            Planner(exponentialSymbolsS, {"tMODIFIER"}, "modifierErrorFormat",
                    "planFunction", "nil")
      [] name = "planMultiplicative" ->
            Planner(multiplicativeSymbols, {"tMODIFIER"}, "modifierErrorFormat",
                    "planExponential", "nil")
      [] name = "planAdditive" ->
            Planner(additiveSymbols, {"tMODIFIER"}, "modifierErrorFormat",
                    "planMultiplicative", "nil")
      [] name = "planShift" ->
            Planner(bitwiseShiftSymbols, {"tMODIFIER"}, "modifierErrorFormat",
                    "planAdditive", "nil")
      [] name = "planBitwise" ->
            Planner(bitwiseSymbols, {"tMODIFIER"}, "modifierErrorFormat",
                    "planShift", "nil")
      [] name = "planComparator" ->
            Planner(comparatorSymbols, {"tCOMPARATOR"}, "comparatorErrorFormat",
                    "planBitwise", "nil")
      [] name = "planLogicalAnd" ->
            Planner(logicalAndSymbols, {"tLOGICALOP"}, "logicalErrorFormat",
                    "planComparator", "nil")
      [] name = "planLogicalOr" ->
            Planner(logicalOrSymbols, {"tLOGICALOP"}, "logicalErrorFormat",
                    "planLogicalAnd", "nil")
      [] name = "planTernary" ->
            Planner(ternarySymbols, {"tTERNARY"}, "ternaryErrorFormat",
                    "planLogicalOr", "nil")
      [] name = "planSeparator" ->
            Planner(separatorSymbols, {"tSEPARATOR"}, "", "planTernary", "nil")

(***************************************************************************)
(* The planner: recursive descent over a token stream.  A stream is the     *)
(* token list with a cursor index (the number of tokens consumed); every    *)
(* precedent returns the cursor and the heap it leaves behind.              *)
(***************************************************************************)
PlanResult(index, heap, stage, err) ==
    [index |-> index, heap |-> heap, stage |-> stage, err |-> err]

\* hasNext off by one: true at the end of the tokens too.
hasNextAtEnd(tokens, index) == index <= Len(tokens)

hasNext(tokens, index) == index < Len(tokens)

\* next() reads t.tokens[t.index]: a run-time panic outside 0..len-1.
nextPanics(tokens, index) == index < 0 \/ index >= Len(tokens)

IndexPanic == "panic: index out of range"

\* A new stage is stored at the end of the heap; its address is returned.
NewStage(index, heap, stage) == PlanResult(index, Append(heap, stage), Len(heap) + 1, "")

\* The precedents a precedent runs before its own loop: itself, its left
\* precedent, the left precedent of that one, ... (planner.next).
RECURSIVE leftPrecedents(_)
leftPrecedents(name) ==
    IF planners(name).next \in Precedents
    THEN <<name>> \o leftPrecedents(planners(name).next)
    ELSE <<name>>

leftPrecedentChains == [name \in Precedents |-> leftPrecedents(name)]

RECURSIVE precedent(_, _, _, _)
RECURSIVE planLevels(_, _, _, _)
RECURSIVE planPrecedenceLevel(_, _, _, _, _, _)
RECURSIVE planFunction(_, _, _)
RECURSIVE planAccessor(_, _, _)
RECURSIVE planValue(_, _, _)
RECURSIVE planTokens(_, _, _)

\* makePrecedentFromPlanner: the generated precedent calls planPrecedenceLevel
\* with the planner's tables; its right precedent defaults to itself.  Every
\* planPrecedenceLevel begins by calling its left precedent, so nothing
\* happens until the innermost left precedent has returned L; then the
\* levels run their loops from the innermost (k = Len(levels)) outwards.
precedent(name, tokens, index, heap) ==
    IF name = "planFunction" THEN planFunction(tokens, index, heap)
    ELSE LET levels == leftPrecedentChains[name]
             innermost == planners(levels[Len(levels)])
         IN  planLevels(levels, Len(levels), tokens,
                 IF innermost.next = "nil"
                 THEN PlanResult(index, heap, 0, "")
                 ELSE precedent(innermost.next, tokens, index, heap))

\* The generated precedent of one level, given what its left precedent
\* returned.
planLevel(name, tokens, L) ==
    planPrecedenceLevel(tokens, L, planners(name).typeErrorFormat,
        planners(name).validSymbols, planners(name).validKinds,
        IF planners(name).nextRight # "nil" THEN planners(name).nextRight
        ELSE name)

\* L is what the left precedent of levels[k] returned; an error returns
\* through every level ("return nil, err").
planLevels(levels, k, tokens, L) ==
    IF k = 0 \/ L.err # "" THEN L
    ELSE planLevels(levels, k - 1, tokens, planLevel(levels[k], tokens, L))

\* planPrecedenceLevel, from the return of leftPrecedent(stream) on: L holds
\* leftStage, err and the stream as the left precedent left it (the stream
\* as it was, and no stage, when leftPrecedent is nil).
planPrecedenceLevel(tokens, L, typeErrorFormat, validSymbols, validKinds, rightPrecedent) ==
    IF L.err # "" THEN PlanResult(L.index, L.heap, 0, L.err)
    ELSE IF ~hasNext(tokens, L.index)
    THEN \* the loop body never runs; the rewind after the loop still does
         PlanResult(L.index - 1, L.heap, L.stage, "")
    ELSE IF nextPanics(tokens, L.index) THEN PlanResult(L.index, L.heap, 0, IndexPanic)
    ELSE LET token == tokens[L.index + 1]
             consumed == L.index + 1
         IN
         IF \/ (validKinds # {} /\ token.Kind \notin validKinds)
            \/ token.Value.t # "string"
            \/ token.Value.s \notin DOMAIN validSymbols
         THEN \* break, then rewind
              PlanResult(consumed - 1, L.heap, L.stage, "")
         ELSE LET symbol == validSymbols[token.Value.s]
                  R == precedent(rightPrecedent, tokens, consumed, L.heap)
                  checks == findTypeChecks(symbol)
              IN
              IF R.err # "" THEN PlanResult(R.index, R.heap, 0, R.err)
              ELSE NewStage(R.index, R.heap,
                       Stage(symbol, L.stage, R.stage,
                             Operator(stageSymbolMap[symbol], Nil),
                             checks.left, checks.right, checks.combined,
                             typeErrorFormat))

\* planFunction, with the arguments planned as the left child.
planFunctionArgumentsLeft(tokens, index, heap) ==
    IF nextPanics(tokens, index) THEN PlanResult(index, heap, 0, IndexPanic)
    ELSE LET token == tokens[index + 1] IN
         IF token.Kind # "tFUNCTION"
         THEN planAccessor(tokens, index, heap)
         ELSE LET R == planAccessor(tokens, index + 1, heap) IN
              IF R.err # "" THEN PlanResult(R.index, R.heap, 0, R.err)
              ELSE NewStage(R.index, R.heap,
                       Stage("tFUNCTIONAL", R.stage, 0,
                             Operator("makeFunctionStage", token.Value),
                             "nil", "nil", "nil", "Unable to run function '%v': %v"))

planFunction(tokens, index, heap) ==
    IF nextPanics(tokens, index) THEN PlanResult(index, heap, 0, IndexPanic)
    ELSE LET token == tokens[index + 1] IN
         IF token.Kind # "tFUNCTION"
         THEN planAccessor(tokens, index, heap)
         ELSE LET R == planAccessor(tokens, index + 1, heap) IN
              IF R.err # "" THEN PlanResult(R.index, R.heap, 0, R.err)
              ELSE NewStage(R.index, R.heap,
                       Stage("tFUNCTIONAL", 0, R.stage,
                             Operator("makeFunctionStage", token.Value),
                             "nil", "nil", "nil", "Unable to run function '%v': %v"))

planAccessor(tokens, index, heap) ==
    IF ~hasNext(tokens, index) THEN PlanResult(index, heap, 0, "")
    ELSE IF nextPanics(tokens, index) THEN PlanResult(index, heap, 0, IndexPanic)
    ELSE LET token == tokens[index + 1]
             consumed == index + 1
         IN
         IF token.Kind # "tACCESSOR"
         THEN planValue(tokens, index, heap)
         ELSE LET R == IF hasNext(tokens, consumed) /\ tokens[consumed + 1].Kind = "tCLAUSE"
                       THEN planTokens(tokens, consumed, heap)
                       ELSE PlanResult(consumed, heap, 0, "")
              IN
              IF R.err # "" THEN PlanResult(R.index, R.heap, 0, R.err)
              ELSE NewStage(R.index, R.heap,
                       Stage("tACCESS", 0, R.stage,
                             Operator("makeAccessorStage", token.Value),
                             "nil", "nil", "nil",
                             "Unable to access parameter field or method '%v': %v"))

planValue(tokens, index, heap) ==
    IF ~hasNext(tokens, index) THEN PlanResult(index, heap, 0, "")
    ELSE IF nextPanics(tokens, index) THEN PlanResult(index, heap, 0, IndexPanic)
    ELSE LET token == tokens[index + 1]
             consumed == index + 1
         IN
         CASE token.Kind = "tCLAUSE" ->
                LET R == planTokens(tokens, consumed, heap) IN
                IF R.err # "" THEN PlanResult(R.index, R.heap, 0, R.err)
                ELSE IF nextPanics(tokens, R.index)
                THEN PlanResult(R.index, R.heap, 0, IndexPanic)
                ELSE NewStage(R.index + 1, R.heap,
                         Stage("tNOOP", 0, R.stage, Operator("noopStageRight", Nil),
                               "nil", "nil", "nil", ""))
           [] token.Kind = "tCLAUSE_CLOSE" -> PlanResult(consumed - 1, heap, 0, "")
           [] token.Kind = "tVARIABLE" ->
                NewStage(consumed, heap,
                    Stage("tVALUE", 0, 0, Operator("makeParameterStage", token.Value),
                          "nil", "nil", "nil", ""))
           [] token.Kind \in {"tNUMERIC", "tSTRING", "tPATTERN", "tBOOLEAN"} ->
                NewStage(consumed, heap,
                    Stage("tLITERAL", 0, 0, Operator("makeLiteralStage", token.Value),
                          "nil", "nil", "nil", ""))
           [] token.Kind = "tTIME" ->
                NewStage(consumed, heap,
                    Stage("tLITERAL", 0, 0,
                          Operator("makeLiteralStage", Num(token.Value.n)),
                          "nil", "nil", "nil", ""))
           [] token.Kind = "tPREFIX" -> precedent("planPrefix", tokens, consumed - 1, heap)
           [] OTHER -> PlanResult(consumed, heap, 0, "Unable to plan token kind")

planTokens(tokens, index, heap) ==
    IF ~hasNext(tokens, index) THEN PlanResult(index, heap, 0, "")
    ELSE precedent("planSeparator", tokens, index, heap)

(***************************************************************************)
(* Stage reordering: runs of equal precedence down the right spine are      *)
(* mirrored in place.                                                       *)
(***************************************************************************)
findOperatorPrecedenceForSymbol(symbol) ==
    CASE symbol = "tNOOP" -> "noopPrecedence"
      [] symbol = "tVALUE" -> "valuePrecedence"
      [] symbol \in {"tEQ", "tNEQ", "tGT", "tLT", "tGTE", "tLTE", "tREQ",
                     "tNREQ", "tIN"} -> "comparatorPrecedence"
      [] symbol = "tAND" -> "logicalAndPrecedence"
      [] symbol = "tOR" -> "logicalOrPrecedence"
      [] symbol \in {"tBITWISE_AND", "tBITWISE_OR", "tBITWISE_XOR"} -> "bitwisePrecedence"
      [] symbol \in {"tBITWISE_LSHIFT", "tBITWISE_RSHIFT"} -> "bitwiseShiftPrecedence"
      [] symbol \in {"tPLUS", "tMINUS"} -> "additivePrecedence"
      [] symbol \in {"tMULTIPLY", "tDIVIDE", "tMODULUS"} -> "multiplicativePrecedence"
      [] symbol = "tEXPONENT" -> "exponentialPrecedence"
      [] symbol \in {"tBITWISE_NOT", "tNEGATE", "tINVERT"} -> "prefixPrecedence"
      [] symbol \in {"tCOALESCE", "tTERNARY_TRUE", "tTERNARY_FALSE"} -> "ternaryPrecedence"
      [] symbol \in {"tACCESS", "tFUNCTIONAL"} -> "functionalPrecedence"
      [] symbol = "tSEPARATE" -> "separatePrecedence"
      [] OTHER -> "valuePrecedence"

\* swapWith: the two stages exchange everything but their child pointers.
swapWith(heap, this, other) ==
    LET a == heap[this]
        b == heap[other]
        set(x, y) == [x EXCEPT !.symbol = y.symbol, !.operator = y.operator,
                               !.leftTypeCheck = y.leftTypeCheck,
                               !.rightTypeCheck = y.rightTypeCheck,
                               !.typeCheck = y.typeCheck,
                               !.typeErrorFormat = y.typeErrorFormat]
        h1 == [heap EXCEPT ![other] = set(b, a)]
    IN  [h1 EXCEPT ![this] = set(h1[this], b)]

\* First loop of mirrorStageSubtree: every stage of the run exchanges its
\* left and right child.
RECURSIVE mirrorFlipChildren(_, _, _)
mirrorFlipChildren(heap, stages, k) ==
    IF k > Len(stages) THEN heap
    ELSE LET frontStage == stages[k]
             carryStage == heap[frontStage].rightStage
             h1 == [heap EXCEPT ![frontStage].rightStage = heap[frontStage].leftStage]
             h2 == [h1 EXCEPT ![frontStage].leftStage = carryStage]
         IN  mirrorFlipChildren(h2, stages, k + 1)

\* The end swap with its second assignment left out: the root keeps its
\* right child, which the end stage now holds too.
mirrorSwapEndsShared(heap, stages) ==
    LET rootStage == stages[1]
        frontStage == stages[Len(stages)]
    IN  [heap EXCEPT ![frontStage].leftStage = heap[rootStage].rightStage]

\* "end left swaps with root right"
mirrorSwapEnds(heap, stages) ==
    LET rootStage == stages[1]
        frontStage == stages[Len(stages)]
        carryStage == heap[frontStage].leftStage
        h1 == [heap EXCEPT ![frontStage].leftStage = heap[rootStage].rightStage]
    IN  [h1 EXCEPT ![rootStage].rightStage = carryStage]

\* Second loop: for i := 0; i < (stagesLength-2)/2+1; i++ the stage i+1 and
\* its inverse stagesLength-i-1 exchange their right child (0-based indices).
RECURSIVE mirrorSwapRights(_, _, _)
mirrorSwapRights(heap, stages, i) ==
    IF ~(i < (Len(stages) - 2) \div 2 + 1) THEN heap
    ELSE LET frontStage == stages[(i + 1) + 1]
             inverseStage == stages[(Len(stages) - i - 1) + 1]
             carryStage == heap[frontStage].rightStage
             h1 == [heap EXCEPT ![frontStage].rightStage = heap[inverseStage].rightStage]
             h2 == [h1 EXCEPT ![inverseStage].rightStage = carryStage]
         IN  mirrorSwapRights(h2, stages, i + 1)

\* Third loop: for i := 0; i < stagesLength/2; i++ stage i swaps its
\* information with its inverse.
RECURSIVE mirrorSwapInfo(_, _, _)
mirrorSwapInfo(heap, stages, i) ==
    IF ~(i < Len(stages) \div 2) THEN heap
    ELSE mirrorSwapInfo(
             swapWith(heap, stages[i + 1], stages[(Len(stages) - i - 1) + 1]),
             stages, i + 1)

\* A mirror that leaves the run as it was planned.
mirrorStageSubtreeAsPlanned(heap, stages) == heap

mirrorStageSubtree(heap, stages) ==
    mirrorSwapInfo(
        mirrorSwapRights(
            mirrorSwapEnds(mirrorFlipChildren(heap, stages, 1), stages),
            stages, 0),
        stages, 0)

\* reorderStages: the loop walks the right spine from rootStage; for every
\* stage it first reorders the left subtree, then extends or closes the run of
\* identical precedences.
RECURSIVE reorderStages(_, _)
RECURSIVE reorderLoop(_, _, _, _)
reorderLoop(heap, nextStage, identicalPrecedences, precedence) ==
    IF nextStage = 0
    THEN IF Len(identicalPrecedences) > 1
         THEN mirrorStageSubtree(heap, identicalPrecedences)
         ELSE heap
    ELSE LET currentStage == nextStage
             following == heap[currentStage].rightStage
             h1 == IF heap[currentStage].leftStage # 0
                   THEN reorderStages(heap, heap[currentStage].leftStage)
                   ELSE heap
             currentPrecedence == findOperatorPrecedenceForSymbol(h1[currentStage].symbol)
         IN
         IF currentPrecedence = precedence
         THEN reorderLoop(h1, following, Append(identicalPrecedences, currentStage), precedence)
         ELSE reorderLoop(
                  IF Len(identicalPrecedences) > 1
                  THEN mirrorStageSubtree(h1, identicalPrecedences)
                  ELSE h1,
                  following, <<currentStage>>, currentPrecedence)

reorderStages(heap, rootStage) ==
    reorderLoop(heap, rootStage, <<>>,
                findOperatorPrecedenceForSymbol(heap[rootStage].symbol))

(***************************************************************************)
(* Type checks and the operators of the stages.                             *)
(***************************************************************************)
isString(value) == value.t = "string"

isRegexOrString(value) == value.t \in {"string", "pattern"}

isBool(value) == value.t = "bool"

isFloat64(value) == value.t = "float64"

isArray(value) == value.t = "array"

comparatorTypeCheck(left, right) ==
    \/ isFloat64(left) /\ isFloat64(right)
    \/ isString(left) /\ isString(right)

additionTypeCheck(left, right) ==
    \/ isFloat64(left) /\ isFloat64(right)
    \/ isString(left) /\ isString(right)

\* A stageTypeCheck or stageCombinedTypeCheck called by its name.
applyCheck(check, value) ==
    CASE check = "isString" -> isString(value)
      [] check = "isRegexOrString" -> isRegexOrString(value)
      [] check = "isBool" -> isBool(value)
      [] check = "isFloat64" -> isFloat64(value)
      [] check = "isArray" -> isArray(value)

applyCombinedCheck(check, left, right) ==
    CASE check = "comparatorTypeCheck" -> comparatorTypeCheck(left, right)
      [] check = "additionTypeCheck" -> additionTypeCheck(left, right)

\* Errors are values: e is the message ("" for nil), v and sym what the
\* message is formatted with.
Error(e, v, sym) == [e |-> e, v |-> v, sym |-> sym]

NoError == Error("", Nil, "")

\* A type check that every value passes.
typeCheckPasses(check, value, symbol, format) == NoError

\* typeCheck: a nil check passes; a failed check formats the stage's error.
typeCheck(check, value, symbol, format) ==
    IF check = "nil" THEN NoError
    ELSE IF applyCheck(check, value) THEN NoError
    ELSE Error(format, value, symbol)

(***************************************************************************)
(* float64 arithmetic on the exact fractions of the model.                  *)
(***************************************************************************)
FloatAdd(x, y) ==
    IF ~IsFinite(x) \/ ~IsFinite(y) THEN NotANumber
    ELSE Float(x.n * y.d + y.n * x.d, x.d * y.d)

FloatNeg(x) == IF ~IsFinite(x) THEN NotANumber ELSE Float(-x.n, x.d)

FloatMul(x, y) ==
    IF ~IsFinite(x) \/ ~IsFinite(y) THEN NotANumber
    ELSE Float(x.n * y.n, x.d * y.d)

FloatDiv(x, y) ==
    IF ~IsFinite(x) \/ ~IsFinite(y) THEN NotANumber
    ELSE Float(x.n * y.d, x.d * y.n)

\* math.Mod(x, y) = x - y * trunc(x / y).
FloatMod(x, y) ==
    IF ~IsFinite(x) \/ ~IsFinite(y) \/ y.n = 0 THEN NotANumber
    ELSE FloatAdd(x, FloatNeg(FloatMul(y, Num(Trunc(FloatDiv(x, y))))))

\* Exponents and shift counts above this leave the model's number range
\* for every base of magnitude two or more.
MaxExponent == 20

\* math.Pow(x, y) for an integral y.
FloatPow(x, y) ==
    IF ~IsFinite(x) \/ ~IsIntegral(y) THEN NotANumber
    ELSE IF y.n = 0 THEN Num(1)
    ELSE IF x.n = 0 THEN (IF y.n > 0 THEN Num(0) ELSE NotANumber)
    ELSE IF Abs(x.n) = 1 /\ x.d = 1
         THEN (IF x.n = 1 \/ y.n % 2 = 0 THEN Num(1) ELSE Num(-1))
    ELSE IF Abs(y.n) > MaxExponent THEN NotANumber
    ELSE IF y.n > 0 THEN Float(IntPow(x.n, y.n), IntPow(x.d, y.n))
    ELSE Float(IntPow(x.d, -y.n), IntPow(x.n, -y.n))

\* float64(uint64(x) << uint64(y)) and float64(uint64(x) >> uint64(y)) for
\* operands that truncate to non-negative integers.
FloatShiftLeft(x, y) ==
    IF ~IsFinite(x) \/ ~IsFinite(y) \/ x.n < 0 \/ y.n < 0 THEN NotANumber
    ELSE IF Trunc(x) = 0 \/ Trunc(y) >= 64 THEN Num(0)
    ELSE IF Trunc(y) > MaxExponent THEN NotANumber
    ELSE Num(Trunc(x) * IntPow(2, Trunc(y)))

FloatShiftRight(x, y) ==
    IF ~IsFinite(x) \/ ~IsFinite(y) \/ x.n < 0 \/ y.n < 0 THEN NotANumber
    ELSE IF Trunc(y) > MaxExponent THEN Num(0)
    ELSE Num(Trunc(x) \div IntPow(2, Trunc(y)))

\* The bitwise operators on int64(x), int64(y), for non-negative operands.
RECURSIVE Bits(_, _, _)
Bits(op, a, b) ==
    IF a = 0 /\ b = 0 THEN 0
    ELSE LET bit == CASE op = "and" -> (a % 2) * (b % 2)
                      [] op = "or" -> IF (a % 2) + (b % 2) > 0 THEN 1 ELSE 0
                      [] op = "xor" -> ((a % 2) + (b % 2)) % 2
         IN  bit + 2 * Bits(op, a \div 2, b \div 2)

FloatBits(op, x, y) ==
    IF ~IsFinite(x) \/ ~IsFinite(y) \/ x.n < 0 \/ y.n < 0 THEN NotANumber
    ELSE Num(Bits(op, Trunc(x), Trunc(y)))

FloatLess(x, y) == IsFinite(x) /\ IsFinite(y) /\ x.n * y.d < y.n * x.d

\* The strings of the model in their byte order.
StringOrder == <<"bar", "barbar", "barfoo", "foo", "foobar", "foofoo">>

StringLess(x, y) ==
    \E i, j \in DOMAIN StringOrder :
        StringOrder[i] = x.s /\ StringOrder[j] = y.s /\ i < j

\* Which of the model's strings each compiled pattern matches.
RegexMatches(pattern, text) ==
    \/ pattern = "foo" /\ text \in {"foo", "foobar", "barfoo", "foofoo"}
    \/ pattern = "bar" /\ text \in {"bar", "foobar", "barfoo", "barbar"}

(***************************************************************************)
(* Parameters.  A map is a sequence of entries with distinct names.         *)
(***************************************************************************)
Entry(name, value) == [name |-> name, value |-> value]

Parameters(isNil, entries, sanitized) ==
    [isNil |-> isNil, entries |-> entries, sanitized |-> sanitized]

tDUMMY_PARAMETERS == Parameters(FALSE, <<>>, FALSE)

OpResult(val, err) == [val |-> val, err |-> err]

\* A map that answers nil for a name it does not hold.
tGetOrNil(p, name) ==
    IF \E i \in DOMAIN p.entries : p.entries[i].name = name
    THEN OpResult(p.entries[CHOOSE i \in DOMAIN p.entries :
                                p.entries[i].name = name].value, NoError)
    ELSE OpResult(Nil, NoError)

\* tMapParameters.tGet
tGet(p, name) ==
    IF \E i \in DOMAIN p.entries : p.entries[i].name = name
    THEN OpResult(p.entries[CHOOSE i \in DOMAIN p.entries :
                                p.entries[i].name = name].value, NoError)
    ELSE OpResult(Nil, Error("No parameter found", Str(name), ""))

\* The sanitizing adapter: a fetched integer becomes a float64.
castToFloat64(value) == IF value.t = "int" THEN Num(value.n) ELSE value

Get(p, name) ==
    LET r == tGet(p, name) IN
    IF r.err # NoError THEN r
    ELSE IF p.sanitized THEN OpResult(castToFloat64(r.val), NoError)
    ELSE r

\* The functions of the model: f returns the number of its arguments, fail
\* returns an error.
ExpressionFunction(name, arguments) ==
    IF name = "f" THEN OpResult(Num(Len(arguments)), NoError)
    ELSE OpResult(Nil, Error("function failed", Str(name), ""))

\* The fields of the objects of the model.
ObjectField(object, segment) ==
    IF object.t = "object" /\ segment = "B" THEN OpResult(Num(7), NoError)
    ELSE OpResult(Nil, Error("Unable to access", Str(segment), ""))

\* A failed type assertion inside an operator.
OperatorPanic == Error("panic: interface conversion", Nil, "")

Numeric(left, right, result) ==
    IF isFloat64(left) /\ isFloat64(right) THEN OpResult(result, NoError)
    ELSE OpResult(Nil, OperatorPanic)

Ordered(left, right, less, equal) ==
    IF isFloat64(left) /\ isFloat64(right)
    THEN OpResult(Bool((less /\ FloatLess(left, right))
                       \/ (~less /\ FloatLess(right, left))
                       \/ (equal /\ IsFinite(left) /\ left = right)), NoError)
    ELSE IF isString(left) /\ isString(right)
    THEN OpResult(Bool((less /\ StringLess(left, right))
                       \/ (~less /\ StringLess(right, left))
                       \/ (equal /\ left = right)), NoError)
    ELSE OpResult(Nil, OperatorPanic)

\* reflect.DeepEqual: a NaN differs from itself.
DeepEqual(left, right) ==
    left = right /\ (left.t = "float64" => IsFinite(left))

Regex(left, right) ==
    IF isString(left) /\ isRegexOrString(right)
    THEN IF right.t = "string" /\ right.s \in InvalidPatterns
         THEN OpResult(Nil, Error("Unable to compile regexp pattern", right, ""))
         ELSE OpResult(Bool(RegexMatches(right.s, left.s)), NoError)
    ELSE OpResult(Nil, OperatorPanic)

Negated(r) == IF r.err # NoError THEN r ELSE OpResult(Bool(r.val.n = 0), NoError)

\* stage.operator(left, right, parameters): the evaluationOperator called by
\* its name, with the value its closure holds.
applyOperator(operator, left, right, parameters) ==
    LET fn == operator.fn
        arg == operator.arg
    IN
    CASE fn = "addStage" ->
            IF isString(left) /\ isString(right)
            THEN OpResult(Str(left.s \o right.s), NoError)
            ELSE Numeric(left, right, FloatAdd(left, right))
      [] fn = "subtractStage" -> Numeric(left, right, FloatAdd(left, FloatNeg(right)))
      [] fn = "multiplyStage" -> Numeric(left, right, FloatMul(left, right))
      [] fn = "divideStage" -> Numeric(left, right, FloatDiv(left, right))
      [] fn = "modulusStage" -> Numeric(left, right, FloatMod(left, right))
      [] fn = "exponentStage" -> Numeric(left, right, FloatPow(left, right))
      [] fn = "leftShiftStage" -> Numeric(left, right, FloatShiftLeft(left, right))
      [] fn = "rightShiftStage" -> Numeric(left, right, FloatShiftRight(left, right))
      [] fn = "bitwiseAndStage" -> Numeric(left, right, FloatBits("and", left, right))
      [] fn = "bitwiseOrStage" -> Numeric(left, right, FloatBits("or", left, right))
      [] fn = "bitwiseXORStage" -> Numeric(left, right, FloatBits("xor", left, right))
      [] fn = "negateStage" ->
            IF isFloat64(right) THEN OpResult(FloatNeg(right), NoError)
            ELSE OpResult(Nil, OperatorPanic)
      [] fn = "bitwiseNotStage" ->
            IF isFloat64(right)
            THEN OpResult(IF IsFinite(right) THEN Num(-Trunc(right) - 1) ELSE NotANumber,
                          NoError)
            ELSE OpResult(Nil, OperatorPanic)
      [] fn = "invertStage" ->
            IF isBool(right) THEN OpResult(Bool(right.n = 0), NoError)
            ELSE OpResult(Nil, OperatorPanic)
      [] fn = "gtStage" -> Ordered(left, right, FALSE, FALSE)
      [] fn = "gteStage" -> Ordered(left, right, FALSE, TRUE)
      [] fn = "ltStage" -> Ordered(left, right, TRUE, FALSE)
      [] fn = "lteStage" -> Ordered(left, right, TRUE, TRUE)
      [] fn = "equalStage" -> OpResult(Bool(DeepEqual(left, right)), NoError)
      [] fn = "notEqualStage" -> OpResult(Bool(~DeepEqual(left, right)), NoError)
      [] fn = "regexStage" -> Regex(left, right)
      [] fn = "notRegexStage" -> Negated(Regex(left, right))
      [] fn = "andStage" ->
            IF isBool(left) /\ isBool(right)
            THEN OpResult(Bool(left.n = 1 /\ right.n = 1), NoError)
            ELSE OpResult(Nil, OperatorPanic)
      [] fn = "orStage" ->
            IF isBool(left) /\ isBool(right)
            THEN OpResult(Bool(left.n = 1 \/ right.n = 1), NoError)
            ELSE OpResult(Nil, OperatorPanic)
      [] fn = "inStage" ->
            IF isArray(right)
            THEN OpResult(Bool(\E i \in DOMAIN right.a : DeepEqual(left, right.a[i])),
                          NoError)
            ELSE OpResult(Nil, OperatorPanic)
      [] fn = "ternaryIfStage" ->
            IF isBool(left)
            THEN OpResult(IF left.n = 1 THEN right ELSE Nil, NoError)
            ELSE OpResult(Nil, OperatorPanic)
      [] fn = "ternaryElseStage" ->
            OpResult(IF left # Nil THEN left ELSE right, NoError)
      [] fn = "separatorStage" ->
            IF isArray(left) THEN OpResult(Array(Append(left.a, right)), NoError)
            ELSE OpResult(Array(<<left, right>>), NoError)
      [] fn = "noopStageRight" -> OpResult(right, NoError)
      [] fn = "makeLiteralStage" -> OpResult(arg, NoError)
      [] fn = "makeParameterStage" -> Get(parameters, arg.s)
      [] fn = "makeFunctionStage" ->
            IF right = Nil THEN ExpressionFunction(arg.s, <<>>)
            ELSE IF isArray(right) THEN ExpressionFunction(arg.s, right.a)
            ELSE ExpressionFunction(arg.s, <<right>>)
      [] fn = "makeAccessorStage" ->
            LET target == Get(parameters, arg.a[1].s) IN
            IF target.err # NoError THEN target
            ELSE IF right # Nil
            THEN OpResult(Nil, Error("Unable to access", arg.a[Len(arg.a)], ""))
            ELSE ObjectField(target.val, arg.a[2].s)

isShortCircuitable(stage) ==
    stage.symbol \in {"tAND", "tOR", "tTERNARY_TRUE", "tTERNARY_FALSE", "tCOALESCE"}

(***************************************************************************)
(* The evaluator.  Besides the value and the error, the model records what  *)
(* evaluateStage did, in order: which stages it entered, whose type checks  *)
(* it ran and whose operators it invoked.                                   *)
(***************************************************************************)
Event(ev, stage) == [ev |-> ev, stage |-> stage]

EvalResult(val, err, trace) == [val |-> val, err |-> err, trace |-> trace]

\* A switch that never short-circuits.
shortCircuitNever(stage, left) == "none"

\* The switch of evaluateStage on a short-circuitable stage: what the value
\* of the left child decides.  "false", "true" and "left" return at once,
\* "holder" puts shortCircuitHolder in place of the right value.
shortCircuit(stage, left) ==
    IF ~isShortCircuitable(stage) THEN "none"
    ELSE CASE stage.symbol = "tAND" /\ left = Bool(FALSE) -> "false"
           [] stage.symbol = "tOR" /\ left = Bool(TRUE) -> "true"
           [] stage.symbol = "tCOALESCE" /\ left # Nil -> "left"
           [] stage.symbol = "tTERNARY_TRUE" /\ left = Bool(FALSE) -> "holder"
           [] stage.symbol = "tTERNARY_FALSE" /\ left # Nil -> "holder"
           [] OTHER -> "none"

RECURSIVE evaluateStage(_, _, _, _)
evaluateStage(heap, stage, parameters, ChecksTypes) ==
    LET this == heap[stage]
        enter == <<Event("evaluate", stage)>>
        L == IF this.leftStage # 0
             THEN evaluateStage(heap, this.leftStage, parameters, ChecksTypes)
             ELSE EvalResult(Nil, NoError, <<>>)
        left == L.val
        short == shortCircuit(this, left)
        rightHolder == IF short = "holder" THEN shortCircuitHolder ELSE Nil
        R == IF rightHolder # shortCircuitHolder /\ this.rightStage # 0
             THEN evaluateStage(heap, this.rightStage, parameters, ChecksTypes)
             ELSE EvalResult(rightHolder, NoError, <<>>)
        right == R.val
        before == enter \o L.trace \o R.trace
        checked == before \o <<Event("typeCheck", stage)>>
        leftErr == typeCheck(this.leftTypeCheck, left, this.symbol, this.typeErrorFormat)
        rightErr == typeCheck(this.rightTypeCheck, right, this.symbol, this.typeErrorFormat)
        result == applyOperator(this.operator, left, right, parameters)
        invoke(trace) ==
            EvalResult(result.val, result.err, trace \o <<Event("operator", stage)>>)
    IN
    IF L.err # NoError THEN EvalResult(Nil, L.err, enter \o L.trace)
    ELSE IF short = "false" THEN EvalResult(Bool(FALSE), NoError, enter \o L.trace)
    ELSE IF short = "true" THEN EvalResult(Bool(TRUE), NoError, enter \o L.trace)
    ELSE IF short = "left" THEN EvalResult(left, NoError, enter \o L.trace)
    ELSE IF R.err # NoError THEN EvalResult(Nil, R.err, before)
    ELSE IF ~ChecksTypes THEN invoke(before)
    ELSE IF this.typeCheck = "nil"
    THEN IF leftErr # NoError THEN EvalResult(Nil, leftErr, checked)
         ELSE IF rightErr # NoError THEN EvalResult(Nil, rightErr, checked)
         ELSE invoke(checked)
    ELSE IF ~applyCombinedCheck(this.typeCheck, left, right)
    THEN EvalResult(Nil, Error(this.typeErrorFormat, left, this.symbol), checked)
    ELSE invoke(checked)

(***************************************************************************)
(* Constant folding and the compiler.                                       *)
(***************************************************************************)
ElideResult(heap, stage) == [heap |-> heap, stage |-> stage]

\* A fold that hands the operator its operands in the other order.
elideStageSwapped(heap, root) ==
    LET this == heap[root]
        keep == ElideResult(heap, root)
    IN
    IF \/ this.rightStage = 0
       \/ heap[this.rightStage].symbol # "tLITERAL"
       \/ this.leftStage = 0
       \/ heap[this.leftStage].symbol # "tLITERAL"
    THEN keep
    ELSE IF this.symbol \in {"tSEPARATE", "tIN"} THEN keep
    ELSE LET L == applyOperator(heap[this.leftStage].operator, Nil, Nil, tDUMMY_PARAMETERS)
             R == applyOperator(heap[this.rightStage].operator, Nil, Nil, tDUMMY_PARAMETERS)
             result == applyOperator(this.operator, R.val, L.val, tDUMMY_PARAMETERS)
         IN
         IF L.err # NoError THEN keep
         ELSE IF R.err # NoError THEN keep
         ELSE IF typeCheck(this.leftTypeCheck, L.val, this.symbol,
                           this.typeErrorFormat) # NoError THEN keep
         ELSE IF typeCheck(this.rightTypeCheck, R.val, this.symbol,
                           this.typeErrorFormat) # NoError THEN keep
         ELSE IF this.typeCheck # "nil"
                 /\ ~applyCombinedCheck(this.typeCheck, L.val, R.val) THEN keep
         ELSE IF result.err # NoError THEN keep
         ELSE ElideResult(
                  Append(heap, Stage("tLITERAL", 0, 0,
                                     Operator("makeLiteralStage", result.val),
                                     "nil", "nil", "nil", "")),
                  Len(heap) + 1)

\* A fold that does not leave SEPARATE and IN stages alone.
elideStageAnySymbol(heap, root) ==
    LET this == heap[root]
        keep == ElideResult(heap, root)
    IN
    IF \/ this.rightStage = 0
       \/ heap[this.rightStage].symbol # "tLITERAL"
       \/ this.leftStage = 0
       \/ heap[this.leftStage].symbol # "tLITERAL"
    THEN keep
    ELSE LET L == applyOperator(heap[this.leftStage].operator, Nil, Nil, tDUMMY_PARAMETERS)
             R == applyOperator(heap[this.rightStage].operator, Nil, Nil, tDUMMY_PARAMETERS)
             result == applyOperator(this.operator, L.val, R.val, tDUMMY_PARAMETERS)
         IN
         IF L.err # NoError THEN keep
         ELSE IF R.err # NoError THEN keep
         ELSE IF typeCheck(this.leftTypeCheck, L.val, this.symbol,
                           this.typeErrorFormat) # NoError THEN keep
         ELSE IF typeCheck(this.rightTypeCheck, R.val, this.symbol,
                           this.typeErrorFormat) # NoError THEN keep
         ELSE IF this.typeCheck # "nil"
                 /\ ~applyCombinedCheck(this.typeCheck, L.val, R.val) THEN keep
         ELSE IF result.err # NoError THEN keep
         ELSE ElideResult(
                  Append(heap, Stage("tLITERAL", 0, 0,
                                     Operator("makeLiteralStage", result.val),
                                     "nil", "nil", "nil", "")),
                  Len(heap) + 1)

\* elideStage: a stage whose two children are literals is replaced by a new
\* literal stage holding its value, unless a check or the operator fails.
elideStage(heap, root) ==
    LET this == heap[root]
        keep == ElideResult(heap, root)
    IN
    IF \/ this.rightStage = 0
       \/ heap[this.rightStage].symbol # "tLITERAL"
       \/ this.leftStage = 0
       \/ heap[this.leftStage].symbol # "tLITERAL"
    THEN keep
    ELSE IF this.symbol \in {"tSEPARATE", "tIN"} THEN keep
    ELSE LET L == applyOperator(heap[this.leftStage].operator, Nil, Nil, tDUMMY_PARAMETERS)
             R == applyOperator(heap[this.rightStage].operator, Nil, Nil, tDUMMY_PARAMETERS)
             result == applyOperator(this.operator, L.val, R.val, tDUMMY_PARAMETERS)
         IN
         IF L.err # NoError THEN keep
         ELSE IF R.err # NoError THEN keep
         ELSE IF typeCheck(this.leftTypeCheck, L.val, this.symbol,
                           this.typeErrorFormat) # NoError THEN keep
         ELSE IF typeCheck(this.rightTypeCheck, R.val, this.symbol,
                           this.typeErrorFormat) # NoError THEN keep
         ELSE IF this.typeCheck # "nil"
                 /\ ~applyCombinedCheck(this.typeCheck, L.val, R.val) THEN keep
         ELSE IF result.err # NoError THEN keep
         ELSE ElideResult(
                  Append(heap, Stage("tLITERAL", 0, 0,
                                     Operator("makeLiteralStage", result.val),
                                     "nil", "nil", "nil", "")),
                  Len(heap) + 1)

RECURSIVE elideLiterals(_, _)
elideLiterals(heap, root) ==
    LET L == IF heap[root].leftStage # 0
             THEN elideLiterals(heap, heap[root].leftStage)
             ELSE ElideResult(heap, 0)
        h1 == [L.heap EXCEPT ![root].leftStage = L.stage]
        R == IF h1[root].rightStage # 0
             THEN elideLiterals(h1, h1[root].rightStage)
             ELSE ElideResult(h1, 0)
        h2 == [R.heap EXCEPT ![root].rightStage = R.stage]
    IN  elideStage(h2, root)

NilPanic == "panic: nil pointer dereference"

\* planStages: plan, reorder, fold.  The stages before folding are kept for
\* the comparison of the two trees.
Planned(heap, stage, err, reordered) ==
    [heap |-> heap, stage |-> stage, err |-> err, reordered |-> reordered]

planStages(tokens) ==
    LET P == planTokens(tokens, 0, <<>>) IN
    IF P.err # "" THEN Planned(<<>>, 0, P.err, <<>>)
    ELSE IF P.stage = 0 THEN Planned(<<>>, 0, NilPanic, <<>>)
    ELSE LET h1 == reorderStages(P.heap, P.stage)
             E == elideLiterals(h1, P.stage)
         IN  Planned(E.heap, E.stage, "", h1)

\* tNewEvaluableExpressionWithFunctions: the expression, or the first error.
Expression(tokens, heap, stage, err, ChecksTypes) ==
    [tokens |-> tokens, evaluationStages |-> [heap |-> heap, stage |-> stage],
     err |-> err, ChecksTypes |-> ChecksTypes]

NoExpression(err) == Expression(<<>>, <<>>, 0, err, FALSE)

tNewEvaluableExpressionWithFunctions(expression, funcs) ==
    LET parsed == parseTokens(expression, funcs)
        syntax == checkExpressionSyntax(parsed.tokens)
        optimized == optimizeTokens(parsed.tokens)
        planned == planStages(optimized.tokens)
    IN
    IF parsed.err # "" THEN NoExpression(parsed.err)
    ELSE IF checkBalance(parsed.tokens) # "" THEN NoExpression(checkBalance(parsed.tokens))
    ELSE IF syntax.err # "" THEN NoExpression(syntax.err)
    ELSE IF optimized.err # "" THEN NoExpression(optimized.err)
    ELSE IF planned.err # "" THEN NoExpression(planned.err)
    ELSE Expression(optimized.tokens, planned.heap, planned.stage, "", TRUE)

\* An evaluation that checks types whatever the expression's field says.
tEvalChecked(t, parameters) ==
    IF t.evaluationStages.stage = 0 THEN EvalResult(Nil, NoError, <<>>)
    ELSE evaluateStage(t.evaluationStages.heap, t.evaluationStages.stage,
                       IF ~parameters.isNil
                       THEN Parameters(FALSE, parameters.entries, TRUE)
                       ELSE tDUMMY_PARAMETERS,
                       TRUE)

\* tEval: a nil stage tree evaluates to nil; the parameters are wrapped.
tEval(t, parameters) ==
    IF t.evaluationStages.stage = 0 THEN EvalResult(Nil, NoError, <<>>)
    ELSE evaluateStage(t.evaluationStages.heap, t.evaluationStages.stage,
                       IF ~parameters.isNil
                       THEN Parameters(FALSE, parameters.entries, TRUE)
                       ELSE tDUMMY_PARAMETERS,
                       t.ChecksTypes)

TEvaluate(t, parameters) == tEval(t, parameters)

\* Eval: false when the expression does not compile or evaluates to nil.
Eval(expression) ==
    LET t == tNewEvaluableExpressionWithFunctions(expression, {}) IN
    IF t.err # "" THEN Bool(FALSE)
    ELSE LET r == TEvaluate(t, Parameters(TRUE, <<>>, FALSE)) IN
         IF r.val = Nil THEN Bool(FALSE) ELSE r.val

(***************************************************************************)
(* The life of one expression: tNewEvaluableExpressionWithFunctions runs    *)
(* its phases in order, then the caller evaluates the expression against    *)
(* parameter maps.                                                          *)
(*   inputExpression   the source text, as its sequence of lexemes          *)
(*   index             lexemes the lexer stream has consumed                *)
(*   state             kind of the current lexerState (of parseTokens, then *)
(*                     of checkExpressionSyntax)                            *)
(*   tokens            the token list built and then optimised              *)
(*   examined          tokens the loop of checkExpressionSyntax has taken   *)
(*   err               the error the constructor returns ("" for nil)       *)
(*   pc                the phase the constructor is in                      *)
(*   evaluationStages  the stage heap and the root stage                    *)
(*   ChecksTypes       the field of the expression                          *)
(*   parameters        the map of the last TEvaluate call                   *)
(*   result            what the last TEvaluate call returned                *)
(*   goroutines        the calls of TEvaluate that goroutines sharing the   *)
(*                     expression have in progress: their parameters, the   *)
(*                     frames of evaluateStage and what the call returned   *)
(***************************************************************************)
VARIABLES inputExpression, index, state, tokens, examined, err, pc,
          evaluationStages, ChecksTypes, parameters, result, goroutines

vars == <<inputExpression, index, state, tokens, examined, err, pc,
          evaluationStages, ChecksTypes, parameters, result, goroutines>>

NoStages == [heap |-> <<>>, stage |-> 0]

NoResult == EvalResult(Nil, NoError, <<>>)

NilParameters == Parameters(TRUE, <<>>, FALSE)

Map(entries) == Parameters(FALSE, entries, FALSE)

\* The parameter maps callers evaluate with.
Environments ==
    { NilParameters,
      Map(<<>>),
      Map(<<Entry("x", Num(2)), Entry("y", Num(3)), Entry("z", Num(2)),
            Entry("w", Num(1)), Entry("v", Num(2))>>),
      Map(<<Entry("x", Bool(TRUE)), Entry("y", Bool(FALSE)), Entry("z", Bool(TRUE)),
            Entry("w", Bool(FALSE)), Entry("v", Bool(TRUE))>>),
      Map(<<Entry("x", Bool(FALSE)), Entry("y", Bool(TRUE)), Entry("z", Nil),
            Entry("w", Str("foo")), Entry("v", Value("int", 5, 1, "", <<>>))>>),
      Map(<<Entry("x", Bool(TRUE)), Entry("y", Nil),
            Entry("z", Value("int", 5, 1, "", <<>>)), Entry("w", Num(2)),
            Entry("v", Str("bar"))>>),
      Map(<<Entry("x", Nil), Entry("y", Num(2)), Entry("z", Bool(FALSE))>>),
      Map(<<Entry("x", Bool(FALSE)), Entry("y", Nil), Entry("z", Str("foo"))>>) }

\* No goroutine has called TEvaluate.
NoGoroutines == <<>>

\* The state before the constructor has read anything of the expression.
Start(expressions) ==
    /\ inputExpression \in expressions
    /\ index = 0
    /\ state = "tUNKNOWN"
    /\ tokens = <<>>
    /\ examined = 0
    /\ err = ""
    /\ pc = "parseTokens"
    /\ evaluationStages = NoStages
    /\ ChecksTypes = FALSE
    /\ parameters = NilParameters
    /\ result = NoResult
    /\ goroutines = NoGoroutines

Fail(e) == pc' = "failed" /\ err' = e

\* One iteration of the loop of parseTokens.
ReadToken ==
    /\ pc = "parseTokens"
    /\ index < Len(inputExpression)
    /\ LET ps == parseStep(ParseState(tokens, getLexerStateForToken(state), ""),
                           inputExpression[index + 1], functions)
       IN  IF ps.err # ""
           THEN Fail(ps.err) /\ UNCHANGED <<index, state, tokens>>
           ELSE /\ index' = index + 1
                /\ state' = ps.state.kind
                /\ tokens' = ps.tokens
                /\ UNCHANGED <<pc, err>>
    /\ UNCHANGED <<inputExpression, examined, evaluationStages, ChecksTypes,
                   parameters, result>>
    /\ UNCHANGED goroutines

\* The stream is exhausted: parseTokens checks the balance and returns.
ParseEnd ==
    /\ pc = "parseTokens"
    /\ index = Len(inputExpression)
    /\ LET ps == parseEnd(ParseState(tokens, getLexerStateForToken(state), ""))
       IN  IF ps.err # ""
           THEN Fail(ps.err) /\ tokens' = ps.tokens
           ELSE pc' = "checkBalance" /\ UNCHANGED <<err, tokens>>
    /\ UNCHANGED <<inputExpression, index, state, examined, evaluationStages,
                   ChecksTypes, parameters, result>>
    /\ UNCHANGED goroutines

\* The constructor's own call of checkBalance.
CheckBalance ==
    /\ pc = "checkBalance"
    /\ IF checkBalance(tokens) # ""
       THEN Fail(checkBalance(tokens)) /\ UNCHANGED state
       ELSE pc' = "checkExpressionSyntax" /\ state' = "tUNKNOWN" /\ UNCHANGED err
    /\ UNCHANGED <<inputExpression, index, tokens, examined, evaluationStages,
                   ChecksTypes, parameters, result>>
    /\ UNCHANGED goroutines

\* One iteration of the loop of checkExpressionSyntax.
CheckSyntaxToken ==
    /\ pc = "checkExpressionSyntax"
    /\ examined < Len(tokens)
    /\ LET lastToken == IF examined = 0 THEN ZeroToken ELSE tokens[examined]
           step == checkSyntaxToken(getLexerStateForToken(state), lastToken,
                                    tokens[examined + 1], examined + 1)
       IN  /\ examined' = examined + 1
           /\ IF step.err # ""
              THEN Fail(step.err) /\ UNCHANGED state
              ELSE state' = tokens[examined + 1].Kind /\ UNCHANGED <<pc, err>>
    /\ UNCHANGED <<inputExpression, index, tokens, evaluationStages, ChecksTypes,
                   parameters, result>>
    /\ UNCHANGED goroutines

\* The loop is over: the end-of-expression test.
CheckSyntaxEnd ==
    /\ pc = "checkExpressionSyntax"
    /\ examined = Len(tokens)
    /\ LET end == checkSyntaxEnd(getLexerStateForToken(state), examined)
       IN  IF end.err # "" THEN Fail(end.err)
           ELSE pc' = "optimizeTokens" /\ UNCHANGED err
    /\ UNCHANGED <<inputExpression, index, state, tokens, examined,
                   evaluationStages, ChecksTypes, parameters, result>>
    /\ UNCHANGED goroutines

OptimizeTokens ==
    /\ pc = "optimizeTokens"
    /\ LET optimized == optimizeTokens(tokens)
       IN  IF optimized.err # ""
           THEN Fail(optimized.err) /\ UNCHANGED tokens
           ELSE pc' = "planTokens" /\ tokens' = optimized.tokens /\ UNCHANGED err
    /\ UNCHANGED <<inputExpression, index, state, examined, evaluationStages,
                   ChecksTypes, parameters, result>>
    /\ UNCHANGED goroutines


\* planStages, first step: planTokens over a new token stream.
PlanTokens ==
    /\ pc = "planTokens"
    /\ LET planned == planTokens(tokens, 0, <<>>)
       IN  IF planned.err # ""
           THEN Fail(planned.err) /\ UNCHANGED evaluationStages
           ELSE IF planned.stage = 0
           THEN Fail(NilPanic) /\ UNCHANGED evaluationStages
           ELSE /\ pc' = "reorderStages"
                /\ evaluationStages' = [heap |-> planned.heap, stage |-> planned.stage]
                /\ UNCHANGED err
    /\ UNCHANGED <<inputExpression, index, state, tokens, examined, ChecksTypes,
                   parameters, result>>
    /\ UNCHANGED goroutines

\* planStages, second step: reorderStages(stage).
ReorderStages ==
    /\ pc = "reorderStages"
    /\ pc' = "elideLiterals"
    /\ evaluationStages' =
           [evaluationStages EXCEPT
                !.heap = reorderStages(evaluationStages.heap, evaluationStages.stage)]
    /\ UNCHANGED <<inputExpression, index, state, tokens, examined, err,
                   ChecksTypes, parameters, result>>
    /\ UNCHANGED goroutines

\* planStages, third step: stage = elideLiterals(stage); the constructor then
\* sets ChecksTypes and returns the expression.
ElideLiterals ==
    /\ pc = "elideLiterals"
    /\ pc' = "compiled"
    /\ LET elided == elideLiterals(evaluationStages.heap, evaluationStages.stage)
       IN  evaluationStages' = [heap |-> elided.heap, stage |-> elided.stage]
    /\ ChecksTypes' = TRUE
    /\ UNCHANGED <<inputExpression, index, state, tokens, examined, err,
                   parameters, result>>
    /\ UNCHANGED goroutines

\* The expression the constructor returned.
ThisExpression ==
    Expression(tokens, evaluationStages.heap, evaluationStages.stage, err, ChecksTypes)

\* The names the expression looks up: its variables and the first segment
\* of its accessors.
LookedUp ==
    { tokens[k].Value.s : k \in { j \in DOMAIN tokens : tokens[j].Kind = "tVARIABLE" } }
    \cup { tokens[k].Value.a[1].s :
             k \in { j \in DOMAIN tokens : tokens[j].Kind = "tACCESSOR" } }

\* A map without the entries the expression never looks up.
Restricted(p) ==
    Parameters(p.isNil, SelectSeq(p.entries, LAMBDA entry : entry.name \in LookedUp),
               p.sanitized)

\* A call of TEvaluate on the compiled expression, with one of the maps cut
\* down to the names the expression looks up; what it returned stays in
\* result until the caller changes the expression.
Evaluate ==
    /\ pc = "compiled"
    /\ \E p \in { Restricted(e) : e \in Environments } :
           /\ parameters' = p
           /\ result' = TEvaluate(ThisExpression, p)
    /\ pc' = "evaluated"
    /\ UNCHANGED <<inputExpression, index, state, tokens, examined, err,
                   evaluationStages, ChecksTypes>>
    /\ UNCHANGED goroutines

\* The caller sets the exported field ChecksTypes; what an earlier call
\* returned says nothing about the expression any more.
SetChecksTypes ==
    /\ pc \in {"compiled", "evaluated"}
    /\ ChecksTypes' = ~ChecksTypes
    /\ pc' = "compiled"
    /\ parameters' = NilParameters
    /\ result' = NoResult
    /\ UNCHANGED <<inputExpression, index, state, tokens, examined, err,
                   evaluationStages>>
    /\ UNCHANGED goroutines

Next ==
    \/ ReadToken
    \/ ParseEnd
    \/ CheckBalance
    \/ CheckSyntaxToken
    \/ CheckSyntaxEnd
    \/ OptimizeTokens
    \/ PlanTokens
    \/ ReorderStages
    \/ ElideLiterals
    \/ Evaluate
    \/ SetChecksTypes


(***************************************************************************)
(* Reading a stage tree: the stages in prefix order, every stage followed   *)
(* by its left and its right subtree, a nil child written as NilLabel.      *)
(***************************************************************************)
Label(symbol, arg) == [symbol |-> symbol, arg |-> arg]

NilLabel == Label("nil", Nil)

RECURSIVE Term(_, _)
Term(stages, s) ==
    IF s = 0 THEN <<NilLabel>>
    ELSE <<Label(stages[s].symbol, stages[s].operator.arg)>>
         \o Term(stages, stages[s].leftStage) \o Term(stages, stages[s].rightStage)

\* The stages of the subtree under s.
RECURSIVE Subtree(_, _)
Subtree(stages, s) ==
    IF s = 0 THEN {}
    ELSE {s} \cup Subtree(stages, stages[s].leftStage)
             \cup Subtree(stages, stages[s].rightStage)

\* The planner level that plans a binary operator lexeme.
BinaryLevels == Precedents \ {"planPrefix"}

LevelOf(lexeme) ==
    CHOOSE name \in BinaryLevels : lexeme \in DOMAIN planners(name).validSymbols

SymbolOf(lexeme) == planners(LevelOf(lexeme)).validSymbols[lexeme]

\* Stages built by hand, as planValue and planPrecedenceLevel build them.
VariableStage(name) ==
    Stage("tVALUE", 0, 0, Operator("makeParameterStage", Str(name)),
          "nil", "nil", "nil", "")

OperatorStage(lexeme, left, right) ==
    LET symbol == SymbolOf(lexeme)
        checks == findTypeChecks(symbol)
    IN  Stage(symbol, left, right, Operator(stageSymbolMap[symbol], Nil),
              checks.left, checks.right, checks.combined,
              planners(LevelOf(lexeme)).typeErrorFormat)

(***************************************************************************)
(* Chains of one planner level: x o1 y o2 z ... with up to MaxChain         *)
(* operators of the same level between variables.                           *)
(***************************************************************************)
MaxChain == 4

ChainOperands == <<"x", "y", "z", "w", "v">>

ChainOperand(k) == ChainOperands[((k - 1) % Len(ChainOperands)) + 1]

\* The operators of each level that chains are built from.
ChainOperators(name) ==
    IF name = "planComparator" THEN {"==", "<", ">=", "in"}
    ELSE DOMAIN planners(name).validSymbols

Chain(operators) ==
    [k \in 1..(2 * Len(operators) + 1) |->
        IF k % 2 = 1 THEN ChainOperand((k + 1) \div 2) ELSE operators[k \div 2]]

ChainExpressions ==
    UNION { UNION { { Chain(operators) : operators \in [1..n -> ChainOperators(name)] }
                    : n \in 2..MaxChain }
            : name \in BinaryLevels }

InitChain == Start(ChainExpressions)

SpecChain == InitChain /\ [][Next]_vars

\* The tree (((x o1 y) o2 z) ...) of the first n operators of a chain, as a
\* term and as stages.
RECURSIVE LeftNestedTerm(_, _)
LeftNestedTerm(chain, n) ==
    IF n = 0 THEN Term(<<VariableStage(chain[1])>>, 1)
    ELSE <<Label(SymbolOf(chain[2 * n]), Nil)>>
         \o LeftNestedTerm(chain, n - 1)
         \o Term(<<VariableStage(chain[2 * n + 1])>>, 1)

RECURSIVE LeftNestedStages(_, _)
LeftNestedStages(chain, n) ==
    IF n = 0 THEN [heap |-> <<VariableStage(chain[1])>>, stage |-> 1]
    ELSE LET inner == LeftNestedStages(chain, n - 1)
             operand == Len(inner.heap) + 1
         IN  [heap |-> inner.heap \o
                       <<VariableStage(chain[2 * n + 1]),
                         OperatorStage(chain[2 * n], inner.stage, operand)>>,
              stage |-> operand + 1]

ChainLength == (Len(inputExpression) - 1) \div 2

\* C1: a chain of operators of one planner level is planned as the
\* left-nested tree (((x0 o1 x1) o2 x2) ... on xn), and evaluating the
\* expression returns what evaluating that left-nested tree returns.
C1_ChainLeftToRight ==
    /\ pc \in {"elideLiterals", "compiled", "evaluated"} =>
           Term(evaluationStages.heap, evaluationStages.stage)
               = LeftNestedTerm(inputExpression, ChainLength)
    /\ pc = "evaluated" =>
           LET nested == LeftNestedStages(inputExpression, ChainLength)
               expected == TEvaluate(Expression(tokens, nested.heap, nested.stage, "",
                                                ChecksTypes), parameters)
           IN  result.val = expected.val /\ result.err = expected.err

\* 2 - 3 - 2 has been evaluated to -3 (not to 2 - (3 - 2) = 1), and
\* 2 ** 3 ** 2 to 64.
C1_Witness ==
    /\ pc = "evaluated"
    /\ \E i \in DOMAIN parameters.entries :
           parameters.entries[i] = Entry("x", Num(2))
    /\ \/ inputExpression = <<"x", "-", "y", "-", "z">> /\ result.val = Num(-3)
       \/ inputExpression = <<"x", "**", "y", "**", "z">> /\ result.val = Num(64)


(***************************************************************************)
(* Expressions whose right operand is a function call behind a              *)
(* short-circuiting operator, and expressions whose left operand fails.     *)
(***************************************************************************)
Calls == { <<"f", "(", ")">>, <<"f", "(", "z", ")">> }

ShortCircuitOperators == {"&&", "||", "??"}

GuardedCalls ==
    { <<left, op>> \o call :
        left \in {"true", "false", "x", "y", "1", "missing"},
        op \in ShortCircuitOperators, call \in Calls }

TernaryCalls ==
    { <<cond, "?">> \o call \o <<":", other>> :
        cond \in {"true", "false", "x"}, call \in Calls, other \in {"y", "z", "1"} }
    \cup
    { <<cond, "?", other, ":">> \o call :
        cond \in {"true", "false", "x"}, call \in Calls, other \in {"y", "z", "1"} }

FailingLefts ==
    { <<"missing", op>> \o right :
        op \in {"+", "-", "*", "==", "<", "&&", "||", "??", "?", ",", "in"},
        right \in {<<"7">>, <<"y">>} \cup Calls }

InitShortCircuit == Start(GuardedCalls \cup TernaryCalls \cup FailingLefts)

SpecShortCircuit == InitShortCircuit /\ [][Next]_vars

\* What TEvaluate returns for the subtree under stage s of the expression,
\* and for a one-lexeme expression, under the parameters of the last call.
SubResult(s) ==
    TEvaluate(Expression(tokens, evaluationStages.heap, s, "", ChecksTypes), parameters)

OperandResult(lexeme) ==
    LET operand == tNewEvaluableExpressionWithFunctions(<<lexeme>>, functions) IN
    IF operand.err # "" THEN EvalResult(Nil, Error(operand.err, Nil, ""), <<>>)
    ELSE TEvaluate(operand, parameters)

OperandIs(lexeme, value) ==
    OperandResult(lexeme).err = NoError /\ OperandResult(lexeme).val = value

OperandIsNot(lexeme, value) ==
    OperandResult(lexeme).err = NoError /\ OperandResult(lexeme).val # value

\* The k-th lexeme of the source ("" past its end).
Lexeme(k) == IF k \in DOMAIN inputExpression THEN inputExpression[k] ELSE ""

\* The stages the last call entered, and the stages of the function calls.
Touched == { result.trace[k].stage : k \in DOMAIN result.trace }

Entered ==
    { result.trace[k].stage :
        k \in { j \in DOMAIN result.trace : result.trace[j].ev = "evaluate" } }

CallStages ==
    UNION { Subtree(evaluationStages.heap, s) :
              s \in { c \in DOMAIN evaluationStages.heap :
                        evaluationStages.heap[c].symbol = "tFUNCTIONAL" } }

\* The claim's condition on the value of the left child of a stage.
Triggers(symbol, left) ==
    \/ symbol = "tAND" /\ left = Bool(FALSE)
    \/ symbol = "tOR" /\ left = Bool(TRUE)
    \/ symbol = "tCOALESCE" /\ left # Nil
    \/ symbol = "tTERNARY_TRUE" /\ left = Bool(FALSE)
    \/ symbol = "tTERNARY_FALSE" /\ left # Nil

\* C2: when the short-circuit triggers, no stage of the right operand is
\* evaluated and no function in it is invoked: stage by stage in the tree
\* planStages returned, and for the sources false && f(), true || f(),
\* x ?? f(), cond ? f() : b and cond ? a : f().
C2_ShortCircuitSkipsRight ==
    pc = "evaluated" =>
        /\ \A s \in Entered :
               LET this == evaluationStages.heap[s] IN
               ( /\ this.leftStage # 0
                 /\ this.rightStage # 0
                 /\ SubResult(this.leftStage).err = NoError
                 /\ Triggers(this.symbol, SubResult(this.leftStage).val) )
               => Touched \cap Subtree(evaluationStages.heap, this.rightStage) = {}
        /\ ( \/ Lexeme(2) = "&&" /\ OperandIs(Lexeme(1), Bool(FALSE))
             \/ Lexeme(2) = "||" /\ OperandIs(Lexeme(1), Bool(TRUE))
             \/ Lexeme(2) = "??" /\ OperandIsNot(Lexeme(1), Nil)
             \/ /\ Lexeme(2) = "?"
                /\ Lexeme(3) = "f"
                /\ OperandIs(Lexeme(1), Bool(FALSE))
             \/ /\ Lexeme(2) = "?"
                /\ Lexeme(4) = ":"
                /\ OperandIs(Lexeme(1), Bool(TRUE))
                /\ OperandIsNot(Lexeme(3), Nil) )
           => Touched \cap CallStages = {}

\* x ? y : f() has been evaluated with x true and y false: the value is y
\* and no stage of the call was entered.
C2_Witness ==
    /\ pc = "evaluated"
    /\ inputExpression = <<"x", "?", "y", ":", "f", "(", ")">>
    /\ OperandIs("x", Bool(TRUE))
    /\ OperandIs("y", Bool(FALSE))
    /\ result.val = Bool(FALSE)
    /\ CallStages # {}
    /\ Touched \cap CallStages = {}

\* C10: a stage whose left child returns an error returns that error without
\* entering its right child, checking types or invoking its operator;
\* missing ?? 7 returns the lookup error and not 7.
C10_LeftErrorReturnsAtOnce ==
    pc = "evaluated" =>
        /\ \A s \in Entered :
               LET this == evaluationStages.heap[s] IN
               (this.leftStage # 0 /\ SubResult(this.leftStage).err # NoError)
               => /\ Touched \cap Subtree(evaluationStages.heap, this.rightStage) = {}
                  /\ \A k \in DOMAIN result.trace :
                         result.trace[k].stage = s => result.trace[k].ev = "evaluate"
                  /\ SubResult(s).err = SubResult(this.leftStage).err
                  /\ SubResult(s).val = Nil
        /\ ( inputExpression = <<"missing", "??", "7">>
             => /\ result.err = Error("No parameter found", Str("missing"), "")
                /\ result.val = Nil )

\* missing ?? 7 has been evaluated against a map without missing: only the
\* coalesce stage and its left child were entered.
C10_Witness ==
    /\ pc = "evaluated"
    /\ inputExpression = <<"missing", "??", "7">>
    /\ ~parameters.isNil
    /\ result.err.e = "No parameter found"
    /\ Cardinality(Touched) = 2


(***************************************************************************)
(* Constant expressions: literals under binary operators, prefixes and      *)
(* parentheses, with no variable, function or accessor.                     *)
(***************************************************************************)
Literals == {"0", "1", "2", "true", "false", "'foo'"}

FewLiterals == {"2", "true", "false"}

BinaryOperators == UNION { DOMAIN planners(name).validSymbols : name \in BinaryLevels }

FewOperators == {"-", "&&", "||", "?", ":", "??", "=="}

ConstantExpressions ==
    { <<a, op, b>> : a \in Literals, op \in BinaryOperators, b \in Literals }
    \cup { <<a, op1, b, op2, c>> :
             a \in FewLiterals, op1 \in FewOperators, b \in FewLiterals,
             op2 \in FewOperators, c \in FewLiterals }
    \cup { <<a, op1, "(", b, op2, c, ")">> :
             a \in FewLiterals, op1 \in FewOperators, b \in {"2", "true"},
             op2 \in FewOperators, c \in {"2", "true"} }
    \cup { <<prefix, a, op, b>> :
             prefix \in DOMAIN prefixSymbols, a \in FewLiterals,
             op \in FewOperators, b \in FewLiterals }
    \cup { <<"false", "&&", "5">>, <<"true", "?", "1", ":", "2">>,
           <<"false", "?", "1", ":", "2">>, <<"1", "??", "2">> }

InitConstant == Start(ConstantExpressions)

SpecConstant == InitConstant /\ [][Next]_vars

\* The tree of the tokens after reorderStages and before elideLiterals.
Unfolded ==
    LET planned == planTokens(tokens, 0, <<>>)
    IN  [heap |-> reorderStages(planned.heap, planned.stage), stage |-> planned.stage]

UnfoldedResult ==
    TEvaluate(Expression(tokens, Unfolded.heap, Unfolded.stage, "", ChecksTypes),
              parameters)

\* C3: for an expression of literals only, evaluating the tree elideLiterals
\* returned gives the value and the error that evaluating the reordered,
\* unfolded tree gives.
C3_FoldingIsTransparent ==
    pc = "evaluated" =>
        /\ result.val = UnfoldedResult.val
        /\ result.err = UnfoldedResult.err

\* false ? 1 : 2 has been folded to one literal stage and evaluated to 2,
\* which the unfolded tree of five stages also evaluates to.
C3_Witness ==
    /\ pc = "evaluated"
    /\ inputExpression = <<"false", "?", "1", ":", "2">>
    /\ evaluationStages.heap[evaluationStages.stage].symbol = "tLITERAL"
    /\ Unfolded.heap[Unfolded.stage].symbol = "tTERNARY_FALSE"
    /\ Cardinality(Subtree(Unfolded.heap, Unfolded.stage)) = 5
    /\ result.val = Num(2)
    /\ UnfoldedResult.val = Num(2)


(***************************************************************************)
(* Two operators of different planner levels: x op1 y op2 z.                *)
(***************************************************************************)
\* The position of an operator's level in the order from the loosest level
\* to the tightest: separator, ternary, logical-or, logical-and, comparator,
\* bitwise, shift, additive, multiplicative, exponential.
Tightness(lexeme) ==
    CASE lexeme \in DOMAIN separatorSymbols -> 1
      [] lexeme \in DOMAIN ternarySymbols -> 2
      [] lexeme \in DOMAIN logicalOrSymbols -> 3
      [] lexeme \in DOMAIN logicalAndSymbols -> 4
      [] lexeme \in DOMAIN comparatorSymbols -> 5
      [] lexeme \in DOMAIN bitwiseSymbols -> 6
      [] lexeme \in DOMAIN bitwiseShiftSymbols -> 7
      [] lexeme \in DOMAIN additiveSymbols -> 8
      [] lexeme \in DOMAIN multiplicativeSymbols -> 9
      [] lexeme \in DOMAIN exponentialSymbolsS -> 10

MixedExpressions ==
    { <<"x", ops[1], "y", ops[2], "z">> :
        ops \in { pair \in BinaryOperators \X BinaryOperators :
                    Tightness(pair[1]) # Tightness(pair[2]) } }

PrecedenceExamples ==
    { <<"2", "+", "3", "*", "4">>, <<"2", "*", "3", "+", "4">>,
      <<"true", "&&", "false", "||", "true">> }

InitPrecedence == Start(MixedExpressions \cup PrecedenceExamples)

SpecPrecedence == InitPrecedence /\ [][Next]_vars

\* x op1 y op2 z with the operator of the tighter level grouped first.
TighterFirstStages(e) ==
    IF Tightness(e[2]) > Tightness(e[4])
    THEN [heap |-> <<VariableStage(e[1]), VariableStage(e[3]),
                     OperatorStage(e[2], 1, 2), VariableStage(e[5]),
                     OperatorStage(e[4], 3, 4)>>,
          stage |-> 5]
    ELSE [heap |-> <<VariableStage(e[1]), VariableStage(e[3]), VariableStage(e[5]),
                     OperatorStage(e[4], 2, 3), OperatorStage(e[2], 1, 4)>>,
          stage |-> 5]

\* C4: in x op1 y op2 z with operators of different levels the operator of
\* the tighter level is grouped first, wherever it stands; 2 + 3 * 4 is 14,
\* 2 * 3 + 4 is 10 and true && false || true is true.
C4_TighterLevelFirst ==
    /\ (pc \in {"elideLiterals", "compiled", "evaluated"}
        /\ inputExpression \in MixedExpressions) =>
           LET expected == TighterFirstStages(inputExpression) IN
           /\ Term(evaluationStages.heap, evaluationStages.stage)
                  = Term(expected.heap, expected.stage)
           /\ pc = "evaluated" =>
                  LET value == TEvaluate(Expression(tokens, expected.heap,
                                   expected.stage, "", ChecksTypes), parameters)
                  IN  result.val = value.val /\ result.err = value.err
    /\ pc = "evaluated" =>
           /\ inputExpression = <<"2", "+", "3", "*", "4">> => result.val = Num(14)
           /\ inputExpression = <<"2", "*", "3", "+", "4">> => result.val = Num(10)
           /\ inputExpression = <<"true", "&&", "false", "||", "true">>
                  => result.val = Bool(TRUE)

\* x - y * z has been evaluated with x = 2, y = 3, z = 2 to 2 - (3 * 2) = -4,
\* and 2 + 3 * 4 to 14.
C4_Witness ==
    /\ pc = "evaluated"
    /\ \/ /\ inputExpression = <<"x", "-", "y", "*", "z">>
          /\ \E k \in DOMAIN parameters.entries :
                 parameters.entries[k] = Entry("y", Num(3))
          /\ result.val = Num(-4)
       \/ /\ inputExpression = <<"2", "+", "3", "*", "4">>
          /\ result.val = Num(14)


(***************************************************************************)
(* Ternaries c ? a : b over literals and variables.                         *)
(***************************************************************************)
TernaryExpressions ==
    { <<c, "?", a, ":", b>> :
        c \in {"true", "false", "x"},
        a \in {"y", "1", "'foo'", "true", "false"},
        b \in {"z", "2", "false"} }

InitTernary == Start(TernaryExpressions)

SpecTernary == InitTernary /\ [][Next]_vars

TernaryOperandsHaveValues ==
    /\ OperandResult(inputExpression[1]).err = NoError
    /\ isBool(OperandResult(inputExpression[1]).val)
    /\ OperandResult(inputExpression[3]).err = NoError
    /\ OperandResult(inputExpression[5]).err = NoError

TernarySelection ==
    IF OperandResult(inputExpression[1]).val = Bool(TRUE)
    THEN OperandResult(inputExpression[3]).val
    ELSE OperandResult(inputExpression[5]).val

\* C5: for a boolean c and all values a and b, c ? a : b evaluates to a
\* when c is true and to b when c is false.
C5_TernarySelects ==
    (pc = "evaluated" /\ TernaryOperandsHaveValues) =>
        result.err = NoError /\ result.val = TernarySelection

\* The same for every a that is not nil.
C5_TernarySelectsNonNil ==
    ( /\ pc = "evaluated"
      /\ TernaryOperandsHaveValues
      /\ OperandResult(inputExpression[3]).val # Nil ) =>
        result.err = NoError /\ result.val = TernarySelection

\* x ? y : z has been evaluated with x true and y nil: the value is z.
C5_NilBranch ==
    /\ pc = "evaluated"
    /\ inputExpression = <<"x", "?", "y", ":", "z">>
    /\ OperandIs("x", Bool(TRUE))
    /\ OperandIs("y", Nil)
    /\ OperandIsNot("z", Nil)
    /\ result.val = OperandResult("z").val

(***************************************************************************)
(* Parentheses: every source of up to MaxSource lexemes over a small        *)
(* lexicon, bare and wrapped in up to MaxWrap pairs of parentheses.         *)
(***************************************************************************)
MaxSource == 5

MaxWrap == 2

ParenLexicon == {"2", "x", "-", "(", ")"}

Sources == UNION { [1..n -> ParenLexicon] : n \in 1..MaxSource }

Wrap(e, k) == [j \in 1..k |-> "("] \o e \o [j \in 1..k |-> ")"]

InitParens == Start({ Wrap(e, k) : e \in Sources, k \in 0..MaxWrap })

SpecParens == InitParens /\ [][Next]_vars

\* inputExpression is some source wrapped in k pairs of parentheses.
IsWrapped(k) ==
    /\ Len(inputExpression) > 2 * k
    /\ \A j \in 1..k : /\ inputExpression[j] = "("
                       /\ inputExpression[Len(inputExpression) + 1 - j] = ")"

Unwrapped(k) ==
    [ tNewEvaluableExpressionWithFunctions(
          SubSeq(inputExpression, k + 1, Len(inputExpression) - k), functions)
      EXCEPT !.ChecksTypes = ChecksTypes ]

\* C6: when e compiles, e wrapped in any number of parentheses evaluates to
\* what e evaluates to, under every parameter map.
C6_ParenthesesKeepValue ==
    pc = "evaluated" =>
        \A k \in 1..MaxWrap :
            (IsWrapped(k) /\ Unwrapped(k).err = "") =>
                /\ result.val = TEvaluate(Unwrapped(k), parameters).val
                /\ result.err = TEvaluate(Unwrapped(k), parameters).err

\* Whether the parentheses of a token list are properly nested.
RECURSIVE Nested(_, _, _)
Nested(list, k, depth) ==
    IF k > Len(list) THEN depth = 0
    ELSE IF list[k].Kind = "tCLAUSE" THEN Nested(list, k + 1, depth + 1)
    ELSE IF list[k].Kind = "tCLAUSE_CLOSE"
    THEN depth > 0 /\ Nested(list, k + 1, depth - 1)
    ELSE Nested(list, k + 1, depth)

\* planTokens has made a stage of every token of the list: every token but
\* a CLAUSE_CLOSE gives one stage.
TakesEveryToken(list) ==
    Len(planTokens(list, 0, <<>>).heap)
        = Cardinality({ k \in DOMAIN list : list[k].Kind # "tCLAUSE_CLOSE" })

\* The same for every e whose own parentheses are properly nested and whose
\* planning takes every token.
C6_NestedParenthesesKeepValue ==
    pc = "evaluated" =>
        \A k \in 1..MaxWrap :
            ( /\ IsWrapped(k)
              /\ Unwrapped(k).err = ""
              /\ Nested(Unwrapped(k).tokens, 1, 0)
              /\ TakesEveryToken(Unwrapped(k).tokens) ) =>
                /\ result.val = TEvaluate(Unwrapped(k), parameters).val
                /\ result.err = TEvaluate(Unwrapped(k), parameters).err


\* (2)-(x) has been evaluated with x = 2: it is the source 2)-(x wrapped
\* once; the source alone evaluates to 2, the wrapped source to 0.
C6_IllNestedSource ==
    /\ pc = "evaluated"
    /\ inputExpression = <<"(", "2", ")", "-", "(", "x", ")">>
    /\ OperandIs("x", Num(2))
    /\ Unwrapped(1).err = ""
    /\ TEvaluate(Unwrapped(1), parameters).val = Num(2)
    /\ result.val = Num(0)


(***************************************************************************)
(* The gates before planning: every source of up to MaxLen lexemes over a   *)
(* lexicon with a lexeme of every token kind the lexer produces.            *)
(***************************************************************************)
MaxLen == 3

SyntaxLexicon ==
    {"1", "true", "'foo'", "'2014-01-02'", "x", "f", "a.B", ",", "==", "&&",
     "+", "!", "(", ")", "?"}

SyntaxExpressions == UNION { [1..n -> SyntaxLexicon] : n \in 0..MaxLen }

InitSyntax == Start(SyntaxExpressions)

SpecSyntax == InitSyntax /\ [][Next]_vars

\* What the loop of parseTokens makes of the whole source.
Lexed ==
    parseLoop(inputExpression, 1, ParseState(<<>>, validLexerStates[1], ""), functions)

KindsOf(list) == [i \in DOMAIN list |-> list[i].Kind]

CountOf(kinds, kind) == Cardinality({i \in DOMAIN kinds : kinds[i] = kind})

\* The table allows a token of kind to after a token of kind from.
Legal(from, to) ==
    \E i \in DOMAIN validLexerStates :
        validLexerStates[i].kind = from /\ to \in validLexerStates[i].validNextKinds

\* The positions of a list of kinds the table does not allow, the list being
\* entered from tUNKNOWN.
Violations(kinds) ==
    {i \in DOMAIN kinds : ~Legal(IF i = 1 THEN "tUNKNOWN" ELSE kinds[i - 1], kinds[i])}

FirstViolation(kinds) ==
    CHOOSE i \in Violations(kinds) : \A j \in Violations(kinds) : i <= j

TransitionErrors == {"Undefined function", "Cannot transition token types"}

\* C7: checkExpressionSyntax goes on only while every transition is legal
\* from tUNKNOWN on and accepts only a list without an illegal transition;
\* at the first illegal transition it returns, having examined no later
\* token, with "Undefined function" exactly when the token before is a
\* tVARIABLE and the offending one a tCLAUSE, and with "Cannot transition
\* token types" otherwise.
C7_FirstIllegalTransition ==
    LET kinds == KindsOf(tokens) IN
    /\ pc = "checkExpressionSyntax" => Violations(kinds) \cap (1..examined) = {}
    /\ pc = "optimizeTokens" => Violations(kinds) = {}
    /\ (pc = "failed" /\ err = "Unexpected end of expression") =>
           Violations(kinds) = {}
    /\ (pc = "failed" /\ err \in TransitionErrors) =>
           /\ Violations(kinds) # {}
           /\ examined = FirstViolation(kinds)
           /\ err = "Undefined function" <=>
                  /\ examined > 1
                  /\ kinds[examined - 1] = "tVARIABLE"
                  /\ kinds[examined] = "tCLAUSE"
    /\ (Lexed.err = "" /\ Violations(KindsOf(Lexed.tokens)) # {}) =>
           /\ pc \in {"parseTokens", "checkBalance", "checkExpressionSyntax", "failed"}
           /\ pc = "failed" => err \in TransitionErrors \cup {"Unbalanced parenthesis"}

\* x ( ) has been refused at its second token as an undefined function; the
\* third token was never examined.
C7_Witness ==
    /\ pc = "failed"
    /\ err = "Undefined function"
    /\ KindsOf(tokens) = <<"tVARIABLE", "tCLAUSE", "tCLAUSE_CLOSE">>
    /\ examined = 2

\* C8: when the tCLAUSE tokens of a token list are not as many as its
\* tCLAUSE_CLOSE tokens, compilation fails with "Unbalanced parenthesis",
\* returns no expression and never reaches the grammar check or planning.
C8_UnbalancedNeverPlanned ==
    ( /\ Lexed.err = ""
      /\ CountOf(KindsOf(Lexed.tokens), "tCLAUSE")
             # CountOf(KindsOf(Lexed.tokens), "tCLAUSE_CLOSE") ) =>
        /\ pc \in {"parseTokens", "failed"}
        /\ examined = 0
        /\ evaluationStages = NoStages
        /\ pc = "failed" => err = "Unbalanced parenthesis" /\ tokens = <<>>

\* ( 1 has been lexed and refused as unbalanced.
C8_Witness ==
    /\ inputExpression = <<"(", "1">>
    /\ pc = "failed"
    /\ err = "Unbalanced parenthesis"
    /\ index = 2

NotEOFKinds ==
    {"tCLAUSE", "tMODIFIER", "tCOMPARATOR", "tLOGICALOP", "tPREFIX", "tTERNARY",
     "tFUNCTION", "tSEPARATOR"}

EOFKinds ==
    {"tNUMERIC", "tBOOLEAN", "tSTRING", "tTIME", "tPATTERN", "tVARIABLE",
     "tACCESSOR", "tCLAUSE_CLOSE"}

EndsOpen(kinds) == kinds = <<>> \/ kinds[Len(kinds)] \in NotEOFKinds

\* C9: a token list whose transitions are all legal is refused with
\* "Unexpected end of expression" when it is empty or its last token is a
\* tCLAUSE, tMODIFIER, tCOMPARATOR, tLOGICALOP, tPREFIX, tTERNARY, tFUNCTION
\* or tSEPARATOR, and is accepted only when its last token is a tNUMERIC,
\* tBOOLEAN, tSTRING, tTIME, tPATTERN, tVARIABLE, tACCESSOR or tCLAUSE_CLOSE.
C9_EndOfExpression ==
    LET kinds == KindsOf(tokens) IN
    /\ \A i \in DOMAIN validLexerStates :
           /\ validLexerStates[i].kind \in NotEOFKinds \cup {"tUNKNOWN"} =>
                  ~validLexerStates[i].isEOF
           /\ validLexerStates[i].kind \in EOFKinds => validLexerStates[i].isEOF
    /\ pc = "optimizeTokens" => kinds # <<>> /\ kinds[Len(kinds)] \in EOFKinds
    /\ (pc = "failed" /\ err = "Unexpected end of expression") =>
           examined = Len(tokens) /\ EndsOpen(kinds)
    /\ ( /\ Lexed.err = ""
         /\ checkBalance(Lexed.tokens) = ""
         /\ Violations(KindsOf(Lexed.tokens)) = {}
         /\ EndsOpen(KindsOf(Lexed.tokens)) ) =>
           /\ pc \in {"parseTokens", "checkBalance", "checkExpressionSyntax", "failed"}
           /\ pc = "failed" => err = "Unexpected end of expression"

\* 1 + has been examined to its end and refused: it ends in a tMODIFIER.
C9_Witness ==
    /\ pc = "failed"
    /\ err = "Unexpected end of expression"
    /\ KindsOf(tokens) = <<"tNUMERIC", "tMODIFIER">>
    /\ examined = 2

(***************************************************************************)
(* Operand types: operators over variables and literals of every type, so   *)
(* that type checks pass on some operands and fail on others.               *)
(***************************************************************************)
TypedOperands == {"x", "w", "v", "1", "true", "'foo'"}

TypedOperators == {"+", "-", "<", "==", "&&", "||", "=~", "in", "??", "&", "<<", "**"}

TypedPrefixes == {"!", "-", "~"}

NestedOperands == {"x", "w", "1"}

NestedOperators == {"+", "-", "<", "&&", "||"}

TypedExpressions ==
    { <<a, op, b>> : a \in TypedOperands, op \in TypedOperators, b \in TypedOperands }
    \cup { <<p, a>> : p \in TypedPrefixes, a \in TypedOperands }
    \cup { <<a, o1, b, o2, c>> :
             a \in NestedOperands, o1 \in NestedOperators, b \in NestedOperands,
             o2 \in NestedOperators, c \in NestedOperands }
    \cup { <<a, "?", b, ":", c>> :
             a \in NestedOperands, b \in NestedOperands, c \in NestedOperands }

InitTypes == Start(TypedExpressions)

SpecTypes == InitTypes /\ [][Next]_vars

\* The operand values of stage s in the last call: nil for an absent child,
\* shortCircuitHolder for the right operand a ternary stage skipped.
LeftValue(s) ==
    LET this == evaluationStages.heap[s] IN
    IF this.leftStage = 0 THEN Nil ELSE SubResult(this.leftStage).val

RightValue(s) ==
    LET this == evaluationStages.heap[s] IN
    IF this.symbol \in {"tTERNARY_TRUE", "tTERNARY_FALSE"}
       /\ Triggers(this.symbol, LeftValue(s))
    THEN shortCircuitHolder
    ELSE IF this.rightStage = 0 THEN Nil ELSE SubResult(this.rightStage).val

\* The stage returns from the short-circuit switch without a right operand.
Returns(s) ==
    LET this == evaluationStages.heap[s] IN
    this.symbol \in {"tAND", "tOR", "tCOALESCE"} /\ Triggers(this.symbol, LeftValue(s))

\* Both children of stage s evaluated without error, as far as they were
\* evaluated.
ChildrenSucceed(s) ==
    LET this == evaluationStages.heap[s] IN
    /\ this.leftStage # 0 => SubResult(this.leftStage).err = NoError
    /\ (this.rightStage # 0 /\ RightValue(s) # shortCircuitHolder /\ ~Returns(s))
           => SubResult(this.rightStage).err = NoError

\* The checks that apply to stage s pass on its operand values.
ChecksPass(s) ==
    LET this == evaluationStages.heap[s] IN
    IF this.typeCheck # "nil"
    THEN applyCombinedCheck(this.typeCheck, LeftValue(s), RightValue(s))
    ELSE /\ this.leftTypeCheck # "nil" => applyCheck(this.leftTypeCheck, LeftValue(s))
         /\ this.rightTypeCheck # "nil" => applyCheck(this.rightTypeCheck, RightValue(s))

\* Where in the trace of the last call stage s did ev, and where the stages
\* under child c did anything.
At(ev, s) == { k \in DOMAIN result.trace : result.trace[k] = Event(ev, s) }

Inside(c) ==
    { k \in DOMAIN result.trace :
        result.trace[k].stage \in Subtree(evaluationStages.heap, c) }

Before(A, B) == \A a \in A : \A b \in B : a < b

\* C11: with ChecksTypes = true every stage is evaluated in the order left
\* child, short-circuit decision, right child, type checks, operator; the
\* operator is invoked only after the applicable checks passed, and a failed
\* check makes the stage return its type error without invoking the operator.
C11_ChecksBeforeOperator ==
    (pc = "evaluated" /\ ChecksTypes) =>
        \A s \in Entered :
            LET this == evaluationStages.heap[s]
                E == At("evaluate", s)
                T == At("typeCheck", s)
                O == At("operator", s)
                Lk == Inside(this.leftStage)
                Rk == Inside(this.rightStage)
            IN
            /\ Cardinality(E) = 1 /\ Cardinality(T) <= 1 /\ Cardinality(O) <= 1
            /\ Before(E, Lk \cup Rk \cup T \cup O)
            /\ Before(Lk, Rk \cup T \cup O)
            /\ Before(Rk, T \cup O)
            /\ Before(T, O)
            /\ (ChildrenSucceed(s) /\ Returns(s)) => (Rk = {} /\ T = {} /\ O = {})
            /\ (ChildrenSucceed(s) /\ ~Returns(s)) => T # {}
            /\ O # {} => (T # {} /\ ChecksPass(s))
            /\ (T # {} /\ ~ChecksPass(s))
                   => /\ O = {}
                      /\ this.typeErrorFormat # ""
                      /\ SubResult(s).err.e = this.typeErrorFormat
                      /\ SubResult(s).err.sym = this.symbol
                      /\ SubResult(s).val = Nil

\* x - w has been evaluated with ChecksTypes = true, x a boolean and w a
\* string: both operands were fetched, the check of the left operand failed
\* and the subtraction was never invoked.
C11_Witness ==
    /\ pc = "evaluated"
    /\ ChecksTypes
    /\ inputExpression = <<"x", "-", "w">>
    /\ OperandIs("x", Bool(FALSE))
    /\ OperandIs("w", Str("foo"))
    /\ Len(result.trace) = 8
    /\ result.trace[8] = Event("typeCheck", evaluationStages.stage)
    /\ result.err = Error(evaluationStages.heap[evaluationStages.stage].typeErrorFormat,
                          Bool(FALSE), "tMINUS")

\* The parameters the operators of the last call were handed.
Wrapped ==
    IF ~parameters.isNil THEN Parameters(FALSE, parameters.entries, TRUE)
    ELSE tDUMMY_PARAMETERS

\* The formats of the type errors.
TypeErrorFormats ==
    { evaluationStages.heap[s].typeErrorFormat : s \in DOMAIN evaluationStages.heap }
    \ {""}

\* C12: with ChecksTypes = false no type check is applied and no type error
\* is returned; a stage that is not short-circuited and whose children
\* evaluated without error invokes its operator on the operand values, and
\* what the stage returns is what the operator returned.
C12_NoChecksWhenOff ==
    (pc = "evaluated" /\ ~ChecksTypes) =>
        /\ \A k \in DOMAIN result.trace : result.trace[k].ev # "typeCheck"
        /\ result.err.e \notin TypeErrorFormats
        /\ \A s \in Entered :
               LET this == evaluationStages.heap[s]
                   operated == applyOperator(this.operator, LeftValue(s),
                                             RightValue(s), Wrapped)
               IN
               (ChildrenSucceed(s) /\ ~Triggers(this.symbol, LeftValue(s)))
               => /\ Cardinality(At("operator", s)) = 1
                  /\ Before(Inside(this.leftStage) \cup Inside(this.rightStage),
                            At("operator", s))
                  /\ SubResult(s).val = operated.val
                  /\ SubResult(s).err = operated.err

\* x - w has been evaluated with ChecksTypes = false, x a boolean and w a
\* string: the subtraction was invoked and failed inside the operator.
C12_Witness ==
    /\ pc = "evaluated"
    /\ ~ChecksTypes
    /\ inputExpression = <<"x", "-", "w">>
    /\ OperandIs("x", Bool(FALSE))
    /\ OperandIs("w", Str("foo"))
    /\ Len(result.trace) = 6
    /\ result.trace[6] = Event("operator", evaluationStages.stage)
    /\ result.err = OperatorPanic

(***************************************************************************)
(* Goroutines sharing one compiled expression.  Each call of TEvaluate runs *)
(* evaluateStage on the shared stage tree with frames of its own: a frame   *)
(* holds the stage, the locals left and right, what the child just called   *)
(* returned, and the statement the call is at.                              *)
(***************************************************************************)
Frame(stage, at, left, right, ret) ==
    [stage |-> stage, at |-> at, left |-> left, right |-> right, ret |-> ret]

\* evaluateStage(stage, parameters) entered: var left, right interface{}.
NewFrame(stage) == Frame(stage, "left", Nil, Nil, OpResult(Nil, NoError))

Goroutine(params, wrapped, stack, returned, out) ==
    [parameters |-> params, wrapped |-> wrapped, stack |-> stack,
     returned |-> returned, out |-> out]

\* What one statement of evaluateStage does to its frame: it goes on in the
\* frame, calls evaluateStage on a child, or returns.
Continue(frame) == [do |-> "continue", frame |-> frame, stage |-> 0,
                    out |-> OpResult(Nil, NoError)]

CallStage(frame, stage) == [do |-> "call", frame |-> frame, stage |-> stage,
                            out |-> OpResult(Nil, NoError)]

Return(frame, val, e) == [do |-> "return", frame |-> frame, stage |-> 0,
                          out |-> OpResult(val, e)]

\* The type checks of evaluateStage on the locals of a frame.
evaluateStageChecks(this, frame) ==
    LET leftErr == typeCheck(this.leftTypeCheck, frame.left, this.symbol,
                             this.typeErrorFormat)
        rightErr == typeCheck(this.rightTypeCheck, frame.right, this.symbol,
                              this.typeErrorFormat)
    IN
    IF this.typeCheck = "nil"
    THEN IF leftErr # NoError THEN leftErr ELSE rightErr
    ELSE IF ~applyCombinedCheck(this.typeCheck, frame.left, frame.right)
    THEN Error(this.typeErrorFormat, frame.left, this.symbol)
    ELSE NoError

\* A step that goes on after a child returned an error.
evaluateStageStepIgnoringErrors(this, frame, checksTypes, wrapped) ==
    LET short == shortCircuit(this, frame.left) IN
    CASE frame.at = "left" ->
            IF this.leftStage # 0
            THEN CallStage([frame EXCEPT !.at = "leftReturned"], this.leftStage)
            ELSE Continue([frame EXCEPT !.at = "switch"])
      [] frame.at = "leftReturned" ->
            Continue([frame EXCEPT !.left = frame.ret.val, !.at = "switch"])
      [] frame.at = "switch" ->
            CASE short = "false" -> Return(frame, Bool(FALSE), NoError)
              [] short = "true" -> Return(frame, Bool(TRUE), NoError)
              [] short = "left" -> Return(frame, frame.left, NoError)
              [] short = "holder" ->
                    Continue([frame EXCEPT !.right = shortCircuitHolder, !.at = "right"])
              [] OTHER -> Continue([frame EXCEPT !.at = "right"])
      [] frame.at = "right" ->
            IF frame.right # shortCircuitHolder /\ this.rightStage # 0
            THEN CallStage([frame EXCEPT !.at = "rightReturned"], this.rightStage)
            ELSE Continue([frame EXCEPT !.at = "check"])
      [] frame.at = "rightReturned" ->
            Continue([frame EXCEPT !.right = frame.ret.val, !.at = "check"])
      [] frame.at = "check" ->
            IF checksTypes /\ evaluateStageChecks(this, frame) # NoError
            THEN Return(frame, Nil, evaluateStageChecks(this, frame))
            ELSE Continue([frame EXCEPT !.at = "operator"])
      [] frame.at = "operator" ->
            LET r == applyOperator(this.operator, frame.left, frame.right, wrapped)
            IN  Return(frame, r.val, r.err)

\* One statement of evaluateStage in the frame of a call on stage this.
evaluateStageStep(this, frame, checksTypes, wrapped) ==
    LET short == shortCircuit(this, frame.left) IN
    CASE frame.at = "left" ->
            IF this.leftStage # 0
            THEN CallStage([frame EXCEPT !.at = "leftReturned"], this.leftStage)
            ELSE Continue([frame EXCEPT !.at = "switch"])
      [] frame.at = "leftReturned" ->
            IF frame.ret.err # NoError THEN Return(frame, Nil, frame.ret.err)
            ELSE Continue([frame EXCEPT !.left = frame.ret.val, !.at = "switch"])
      [] frame.at = "switch" ->
            CASE short = "false" -> Return(frame, Bool(FALSE), NoError)
              [] short = "true" -> Return(frame, Bool(TRUE), NoError)
              [] short = "left" -> Return(frame, frame.left, NoError)
              [] short = "holder" ->
                    Continue([frame EXCEPT !.right = shortCircuitHolder, !.at = "right"])
              [] OTHER -> Continue([frame EXCEPT !.at = "right"])
      [] frame.at = "right" ->
            IF frame.right # shortCircuitHolder /\ this.rightStage # 0
            THEN CallStage([frame EXCEPT !.at = "rightReturned"], this.rightStage)
            ELSE Continue([frame EXCEPT !.at = "check"])
      [] frame.at = "rightReturned" ->
            IF frame.ret.err # NoError THEN Return(frame, Nil, frame.ret.err)
            ELSE Continue([frame EXCEPT !.right = frame.ret.val, !.at = "check"])
      [] frame.at = "check" ->
            IF checksTypes /\ evaluateStageChecks(this, frame) # NoError
            THEN Return(frame, Nil, evaluateStageChecks(this, frame))
            ELSE Continue([frame EXCEPT !.at = "operator"])
      [] frame.at = "operator" ->
            LET r == applyOperator(this.operator, frame.left, frame.right, wrapped)
            IN  Return(frame, r.val, r.err)

\* The parameters tEval hands to evaluateStage: the caller's map behind the
\* sanitizing adapter, or tDUMMY_PARAMETERS for a nil map.
tEvalParameters(p) ==
    IF ~p.isNil THEN Parameters(FALSE, p.entries, TRUE) ELSE tDUMMY_PARAMETERS

\* The most goroutines that evaluate the expression at the same time.
MaxGoroutines == 2

\* The maps the goroutines evaluate with.
SharedMaps ==
    { NilParameters,
      Map(<<Entry("x", Num(2)), Entry("y", Num(3)), Entry("z", Num(2))>>),
      Map(<<Entry("x", Bool(TRUE)), Entry("y", Bool(FALSE)), Entry("z", Bool(TRUE))>>) }

\* A goroutine calls TEvaluate on the expression: a goroutine that was not
\* running before, or one whose earlier call has returned.
CallTEvaluate ==
    /\ pc = "compiled"
    /\ \E p \in SharedMaps :
           LET call == IF evaluationStages.stage = 0
                       THEN Goroutine(p, tEvalParameters(p), <<>>, TRUE,
                                      OpResult(Nil, NoError))
                       ELSE Goroutine(p, tEvalParameters(p),
                                      <<NewFrame(evaluationStages.stage)>>, FALSE,
                                      OpResult(Nil, NoError))
           IN  \/ /\ Len(goroutines) < MaxGoroutines
                  /\ goroutines' = Append(goroutines, call)
               \/ \E g \in DOMAIN goroutines :
                      /\ goroutines[g].returned
                      /\ goroutines' = [goroutines EXCEPT ![g] = call]
    /\ UNCHANGED <<inputExpression, index, state, tokens, examined, err, pc,
                   evaluationStages, ChecksTypes, parameters, result>>

\* A goroutine executes the next statement of its innermost evaluateStage.
StepGoroutine ==
    /\ \E g \in DOMAIN goroutines :
           /\ ~goroutines[g].returned
           /\ LET G == goroutines[g]
                  n == Len(G.stack)
                  top == G.stack[n]
                  rest == SubSeq(G.stack, 1, n - 1)
                  step == evaluateStageStep(evaluationStages.heap[top.stage], top,
                                            ChecksTypes, G.wrapped)
              IN  goroutines' = [goroutines EXCEPT ![g] =
                      CASE step.do = "continue" ->
                              [G EXCEPT !.stack = Append(rest, step.frame)]
                        [] step.do = "call" ->
                              [G EXCEPT !.stack = Append(rest, step.frame)
                                                   \o <<NewFrame(step.stage)>>]
                        [] step.do = "return" ->
                              IF rest = <<>>
                              THEN [G EXCEPT !.stack = <<>>, !.returned = TRUE,
                                             !.out = step.out]
                              ELSE [G EXCEPT !.stack =
                                       Append(SubSeq(rest, 1, n - 2),
                                              [rest[n - 1] EXCEPT !.ret = step.out])]]
    /\ UNCHANGED <<inputExpression, index, state, tokens, examined, err, pc,
                   evaluationStages, ChecksTypes, parameters, result>>

\* The constructor runs in one goroutine; the goroutines that share the
\* expression it returned only call TEvaluate.
NextShared ==
    \/ ReadToken
    \/ ParseEnd
    \/ CheckBalance
    \/ CheckSyntaxToken
    \/ CheckSyntaxEnd
    \/ OptimizeTokens
    \/ PlanTokens
    \/ ReorderStages
    \/ ElideLiterals
    \/ CallTEvaluate
    \/ StepGoroutine

SharedExpressions ==
    { <<"x", "-", "y">>,
      <<"x", "&&", "y">>,
      <<"x", "?", "y", ":", "z">>,
      <<"missing", "??", "x">>,
      <<"f", "(", "x", ")">> }

InitShared == Start(SharedExpressions)

SpecShared == InitShared /\ [][NextShared]_vars

\* What the call of goroutine g returns when it runs alone.
Alone(g) == TEvaluate(ThisExpression, goroutines[g].parameters)

\* C13: a step of an evaluation writes neither the token list nor the stage
\* tree nor a field of the expression nor the caller's map, and in every
\* interleaving of the goroutines every call, a repeated one included,
\* returns what it returns when it runs alone.
C13_SharedEvaluation ==
    /\ [](\A g \in DOMAIN goroutines :
              goroutines[g].returned
              => /\ goroutines[g].out.val = Alone(g).val
                 /\ goroutines[g].out.err = Alone(g).err)
    /\ [][goroutines' # goroutines
          => /\ UNCHANGED <<tokens, evaluationStages, ChecksTypes>>
             /\ \A g \in DOMAIN goroutines :
                    ~goroutines[g].returned
                    => goroutines'[g].parameters = goroutines[g].parameters]_vars

\* Two goroutines evaluate x - y: the second has returned -1 for x = 2 and
\* y = 3 while the first, called earlier with booleans, is still waiting for
\* its right operand.
C13_Witness ==
    /\ inputExpression = <<"x", "-", "y">>
    /\ Len(goroutines) = 2
    /\ goroutines[1].parameters # goroutines[2].parameters
    /\ ~goroutines[1].returned
    /\ Len(goroutines[1].stack) = 2
    /\ goroutines[1].stack[1].at = "rightReturned"
    /\ goroutines[1].stack[1].left = Bool(TRUE)
    /\ goroutines[2].returned
    /\ goroutines[2].out = OpResult(Num(-1), NoError)

(***************************************************************************)
(* The lexeme - after a token of every kind the lexer emits.                *)
(***************************************************************************)
MinusLexicon ==
    {"1", "true", "'foo'", "'2014-01-02'", "x", "f", "a.B", ",", "==", "&&",
     "+", "!", "(", ")", "?", "-"}

MinusExpressions ==
    { <<"-", b>> : b \in MinusLexicon }
    \cup { <<a, "-", b>> : a \in MinusLexicon, b \in MinusLexicon }
    \cup { <<a, "-", "-", b>> : a \in MinusLexicon, b \in MinusLexicon }

InitMinus == Start(MinusExpressions)

SpecMinus == InitMinus /\ [][Next]_vars

\* The kind of the token emitted before the k-th one.
PreviousKind(k) == IF k = 1 THEN "tUNKNOWN" ELSE tokens[k - 1].Kind

\* The row of validLexerStates for a kind admits a PREFIX next.
AdmitsPrefix(kind) ==
    \E i \in DOMAIN validLexerStates :
        /\ validLexerStates[i].kind = kind
        /\ \A j \in 1..(i - 1) : validLexerStates[j].kind # kind
        /\ "tPREFIX" \in validLexerStates[i].validNextKinds

ValueKinds ==
    {"tNUMERIC", "tBOOLEAN", "tSTRING", "tTIME", "tPATTERN", "tVARIABLE", "tACCESSOR"}

\* C14: the lexeme - is emitted as a PREFIX exactly when the kind of the
\* token emitted before it admits a PREFIX in validLexerStates (no token
\* before it, an open parenthesis, an infix operator or a separator), and as
\* a MODIFIER otherwise, in particular after a value or a closing
\* parenthesis.
C14_MinusPrefixOrModifier ==
    \A k \in DOMAIN tokens :
        inputExpression[k] = "-" =>
            /\ tokens[k].Kind \in {"tPREFIX", "tMODIFIER"}
            /\ tokens[k].Value = Str("-")
            /\ tokens[k].Kind = "tPREFIX" <=> AdmitsPrefix(PreviousKind(k))
            /\ PreviousKind(k) \in {"tUNKNOWN", "tCLAUSE", "tMODIFIER", "tCOMPARATOR",
                                    "tLOGICALOP", "tTERNARY", "tSEPARATOR"}
                   => tokens[k].Kind = "tPREFIX"
            /\ PreviousKind(k) \in ValueKinds \cup {"tCLAUSE_CLOSE"}
                   => tokens[k].Kind = "tMODIFIER"

\* 1 - - x has been lexed as NUMERIC MODIFIER PREFIX VARIABLE and evaluated
\* with x = 2 to 3.
C14_Witness ==
    /\ pc = "evaluated"
    /\ inputExpression = <<"1", "-", "-", "x">>
    /\ KindsOf(tokens) = <<"tNUMERIC", "tMODIFIER", "tPREFIX", "tVARIABLE">>
    /\ result.val = Num(3)

(***************************************************************************)
(* The convenience entry point.  A caller hands Eval a source text and gets *)
(* one value back.                                                          *)
(***************************************************************************)
\* Eval, after TNewEvaluableExpression has returned an error: return false.
EvalCompileFailed ==
    /\ pc = "failed"
    /\ pc' = "returned"
    /\ result' = EvalResult(Bool(FALSE), NoError, <<>>)
    /\ UNCHANGED <<inputExpression, index, state, tokens, examined, err,
                   evaluationStages, ChecksTypes, parameters, goroutines>>

\* Eval, after TNewEvaluableExpression has returned the expression:
\* TEvaluate(nil), whose error is dropped; false if the value is nil.
EvalEvaluate ==
    /\ pc = "compiled"
    /\ pc' = "returned"
    /\ parameters' = NilParameters
    /\ LET evaluate == TEvaluate(ThisExpression, NilParameters).val IN
       result' = EvalResult(IF evaluate = Nil THEN Bool(FALSE) ELSE evaluate,
                            NoError, <<>>)
    /\ UNCHANGED <<inputExpression, index, state, tokens, examined, err,
                   evaluationStages, ChecksTypes, goroutines>>

\* Eval: the steps of the constructor, then one of the two returns.
NextEval ==
    \/ ReadToken
    \/ ParseEnd
    \/ CheckBalance
    \/ CheckSyntaxToken
    \/ CheckSyntaxEnd
    \/ OptimizeTokens
    \/ PlanTokens
    \/ ReorderStages
    \/ ElideLiterals
    \/ EvalCompileFailed
    \/ EvalEvaluate

\* Sources without function names: Eval compiles without functions.
EvalLexicon == {"1", "true", "false", "x", "(", ")", "?", ":", "+", "&&", "'foo'"}

EvalExpressions == UNION { [1..n -> EvalLexicon] : n \in 0..MaxLen }

InitEval == Start(EvalExpressions)

SpecEval == InitEval /\ [][NextEval]_vars

\* The expression TNewEvaluableExpression compiles from the source, and what
\* TEvaluate(nil) returns for it.
Compiled == tNewEvaluableExpressionWithFunctions(inputExpression, {})

Evaluated == TEvaluate(Compiled, NilParameters)

\* C15: Eval returns false when the source does not compile or its
\* evaluation fails, and in every other case exactly the value that
\* evaluating the compiled expression with no parameters returns.
C15_EvalFalseOrValue ==
    pc = "returned" =>
        IF Compiled.err # "" \/ Evaluated.err # NoError
        THEN result.val = Bool(FALSE)
        ELSE result.val = Evaluated.val

\* What Eval returns is what the operator Eval gives for the source.
C15_EvalAsOperator == pc = "returned" => result.val = Eval(inputExpression)

\* The same, for the evaluations that return a value other than nil.
C15_EvalFalseOrNonNilValue ==
    pc = "returned" =>
        IF Compiled.err # "" \/ Evaluated.err # NoError \/ Evaluated.val = Nil
        THEN result.val = Bool(FALSE)
        ELSE result.val = Evaluated.val

\* Eval has returned false for false ? 1, which compiles and evaluates
\* without error to nil.
C15_NilValue ==
    /\ pc = "returned"
    /\ inputExpression = <<"false", "?", "1">>
    /\ Compiled.err = ""
    /\ Evaluated.err = NoError
    /\ Evaluated.val = Nil
    /\ result.val = Bool(FALSE)

(***************************************************************************)
(* Accessors with and without an argument list.  Every expression of the    *)
(* family holds a.B once: after nothing, after an operator or as the first  *)
(* token of a clause, with or without arguments, followed by nothing or by  *)
(* operators.                                                               *)
(***************************************************************************)
AccessorArguments ==
    { <<>>, <<"(", ")">>, <<"(", "1", ")">>, <<"(", "1", ",", "2", ")">>,
      <<"(", "(", "x", ")", ")">>, <<"(", "1", "-", "x", ")">> }

AfterAccessor ==
    { <<>>, <<"-", "2">>, <<"*", "2">>, <<"&&", "x">>, <<"?", "1">>,
      <<",", "x">>, <<"-", "2", "-", "x">>, <<"==", "7">> }

AccessorExpressions ==
    { <<"a.B">> \o args \o after : args \in AccessorArguments, after \in AfterAccessor }
    \cup { <<"1", "+", "a.B">> \o args \o after :
             args \in AccessorArguments, after \in AfterAccessor }
    \cup { <<"(", "a.B">> \o args \o after \o <<")">> :
             args \in AccessorArguments, after \in AfterAccessor }

InitAccessor == Start(AccessorExpressions)

SpecAccessor == InitAccessor /\ [][Next]_vars

\* The position of the ACCESSOR token.
AccessorAt == CHOOSE k \in DOMAIN tokens : tokens[k].Kind = "tACCESSOR"

\* The ACCESS stage planned for it.
AccessStage ==
    CHOOSE s \in DOMAIN evaluationStages.heap : evaluationStages.heap[s].symbol = "tACCESS"

\* The ACCESSOR token is followed by a CLAUSE.
HasArguments ==
    AccessorAt < Len(tokens) /\ tokens[AccessorAt + 1].Kind = "tCLAUSE"

\* The CLAUSE_CLOSE that matches the CLAUSE at position open.
ClauseClose(open) ==
    CHOOSE m \in open + 1..Len(tokens) :
        /\ CountOf(KindsOf(SubSeq(tokens, open, m)), "tCLAUSE")
               = CountOf(KindsOf(SubSeq(tokens, open, m)), "tCLAUSE_CLOSE")
        /\ \A n \in open + 1..m - 1 :
               CountOf(KindsOf(SubSeq(tokens, open, n)), "tCLAUSE")
                   > CountOf(KindsOf(SubSeq(tokens, open, n)), "tCLAUSE_CLOSE")

\* The argument list: the tokens from the CLAUSE to its CLAUSE_CLOSE.
ArgumentList == SubSeq(tokens, AccessorAt + 1, ClauseClose(AccessorAt + 1))

\* The tokens after the accessor and its argument list.
Following ==
    IF HasArguments THEN ClauseClose(AccessorAt + 1) + 1 ELSE AccessorAt + 1

\* The right subtree of the ACCESS stage is the plan of the argument list.
ArgumentsAlone ==
    LET alone == planTokens(ArgumentList, 0, <<>>) IN
    Term(evaluationStages.heap, evaluationStages.heap[AccessStage].rightStage)
        = Term(alone.heap, alone.stage)

\* The accessor is the first token of the expression or of a clause and an
\* operator follows its argument list.
OperatorFollows ==
    /\ AccessorAt = 1 \/ tokens[AccessorAt - 1].Kind = "tCLAUSE"
    /\ Following <= Len(tokens)
    /\ tokens[Following].Kind
           \in {"tMODIFIER", "tCOMPARATOR", "tLOGICALOP", "tTERNARY", "tSEPARATOR"}

\* The ACCESS stage is the left operand of some stage.
IsLeftOperand ==
    \E p \in Subtree(evaluationStages.heap, evaluationStages.stage) :
        evaluationStages.heap[p].leftStage = AccessStage

\* C16: the right subtree of the ACCESS stage planned for an ACCESSOR that a
\* CLAUSE follows is the plan of exactly the tokens from that CLAUSE to its
\* CLAUSE_CLOSE, an operator after the CLAUSE_CLOSE takes the ACCESS stage
\* as its left operand, and without a CLAUSE the ACCESS stage has no right
\* child.
C16_AccessorArguments ==
    pc = "reorderStages" =>
        /\ HasArguments => ArgumentsAlone
        /\ HasArguments /\ OperatorFollows => IsLeftOperand
        /\ ~HasArguments => evaluationStages.heap[AccessStage].rightStage = 0

\* The same for the accessors whose argument list no operator follows: the
\* expression or the enclosing clause ends after it.
C16_LastAccessorArguments ==
    pc = "reorderStages" =>
        /\ HasArguments /\ (Following > Len(tokens)
                              \/ tokens[Following].Kind = "tCLAUSE_CLOSE")
               => ArgumentsAlone
        /\ ~HasArguments => evaluationStages.heap[AccessStage].rightStage = 0

\* a.B ( 1 ) - 2 is planned as one ACCESS stage whose right subtree is the
\* subtraction of 2 from the clause.
C16_OperatorInArguments ==
    /\ pc = "reorderStages"
    /\ inputExpression = <<"a.B", "(", "1", ")", "-", "2">>
    /\ evaluationStages.stage = AccessStage
    /\ Term(evaluationStages.heap, evaluationStages.stage)
           = << Label("tACCESS", Array(<<Str("a"), Str("B")>>)), NilLabel,
                Label("tMINUS", Nil),
                Label("tNOOP", Nil), NilLabel,
                Label("tLITERAL", Num(1)), NilLabel, NilLabel,
                Label("tLITERAL", Num(2)), NilLabel, NilLabel >>

(***************************************************************************)
(* The shape of the stage trees.  The expressions join one to three         *)
(* operands (variables, literals, nested parentheses, function calls of no  *)
(* to three arguments) with - * , and &&; a few more nest parentheses and    *)
(* calls deeper.                                                            *)
(***************************************************************************)
TreeOperands ==
    { <<"x">>, <<"1">>, <<"(", "(", "x", ")", ")">>, <<"f", "(", ")">>,
      <<"f", "(", "y", ")">>, <<"f", "(", "1", ",", "2", ",", "3", ")">>,
      <<"(", "x", "-", "y", ")">> }

TreeOperators == {"-", "*", ",", "&&"}

FewTreeOperators == {"-", ","}

DeeperExpressions ==
    { <<"(", ")">>, <<"(", "(", ")", ")">>, <<"(", "(", "(", "x", ")", ")", ")">>,
      <<"f", "(", "(", "1", ",", "2", ")", ")">>,
      <<"f", "(", "f", "(", "1", ")", ",", "2", ")">>,
      <<"f", "(", "x", ",", "y", ",", "z", ")">>,
      <<"f", "(", "(", "(", "1", ")", ")", ",", "2", ")">>,
      <<"-", "x">>, <<"x", "?", "y", ":", "z">>, <<"x", "-", "y", "-", "z", "-", "w">>,
      <<"1", ",", "2", ",", "3", ",", "4">> }

TreeExpressions ==
    TreeOperands
    \cup { a \o <<o>> \o b : a \in TreeOperands, o \in TreeOperators, b \in TreeOperands }
    \cup { a \o <<o>> \o b \o <<p>> \o c :
             a \in TreeOperands, o \in FewTreeOperators, b \in TreeOperands,
             p \in FewTreeOperators, c \in TreeOperands }
    \cup DeeperExpressions

InitTrees == Start(TreeExpressions)

SpecTrees == InitTrees /\ [][Next]_vars

\* The stages of the expression's tree.
TreeStages == Subtree(evaluationStages.heap, evaluationStages.stage)

StagesOf(symbol) == { s \in TreeStages : evaluationStages.heap[s].symbol = symbol }

Left(s) == evaluationStages.heap[s].leftStage

Right(s) == evaluationStages.heap[s].rightStage

\* C17: in the tree planStages returns, every NOOP stage has no left child
\* and has a right child, also where parentheses are nested directly.
C17_NoopRightOnly ==
    pc = "compiled" => \A s \in StagesOf("tNOOP") : Left(s) = 0 /\ Right(s) # 0

\* As planTokens builds them, before the reordering, NOOP stages have no
\* left child.
C17_PlannedNoopNoLeft ==
    pc = "reorderStages" => \A s \in StagesOf("tNOOP") : Left(s) = 0

\* planStages has returned the tree of ( ( x ) ): the outer NOOP stage has
\* the inner one, now childless, as its left child and x as its right child.
C17_NestedNoop ==
    /\ pc = "compiled"
    /\ inputExpression = <<"(", "(", "x", ")", ")">>
    /\ Term(evaluationStages.heap, evaluationStages.stage)
           = << Label("tNOOP", Nil),
                Label("tNOOP", Nil), NilLabel, NilLabel,
                Label("tVALUE", Str("x")), NilLabel, NilLabel >>


Symbol(s) == evaluationStages.heap[s].symbol

FunctionTokens == { k \in DOMAIN tokens : tokens[k].Kind = "tFUNCTION" }

\* A call of no arguments: FUNCTION CLAUSE CLAUSE_CLOSE.
NoArguments(k) == tokens[k + 2].Kind = "tCLAUSE_CLOSE"

\* The separators between the arguments of the call whose CLAUSE is at open:
\* those inside no deeper clause.
ArgumentSeparators(open) ==
    { j \in open + 1..ClauseClose(open) - 1 :
        /\ tokens[j].Kind = "tSEPARATOR"
        /\ CountOf(KindsOf(SubSeq(tokens, open, j)), "tCLAUSE")
               = CountOf(KindsOf(SubSeq(tokens, open, j)), "tCLAUSE_CLOSE") + 1 }

Children(heap, s) == {heap[s].leftStage, heap[s].rightStage} \ {0}

\* The stages reached from the stages of S in at most n steps.
RECURSIVE Reach(_, _, _)
Reach(heap, S, n) ==
    IF n = 0 THEN S
    ELSE Reach(heap, S \cup UNION { Children(heap, s) : s \in S }, n - 1)

Reachable(heap, root) == Reach(heap, {root}, Len(heap))

\* The child slots of reachable stages that hold s.
Parents(heap, root, s) ==
    { slot \in Reachable(heap, root) \X {"leftStage", "rightStage"} :
        heap[slot[1]][slot[2]] = s }

Acyclic(heap, root) ==
    \A s \in Reachable(heap, root) : s \notin Reach(heap, Children(heap, s), Len(heap))

OperandSymbols == {"tLITERAL", "tVALUE"}

\* The operand leaves under s from left to right; fuel bounds the depth.
RECURSIVE InOrder(_, _, _)
InOrder(heap, s, fuel) ==
    IF s = 0 \/ fuel = 0 THEN <<>>
    ELSE InOrder(heap, heap[s].leftStage, fuel - 1)
         \o (IF heap[s].symbol \in OperandSymbols
             THEN <<Label(heap[s].symbol, heap[s].operator.arg)>>
             ELSE <<>>)
         \o InOrder(heap, heap[s].rightStage, fuel - 1)

\* The operands in source order, as the stages planValue makes of them.
OperandKinds == {"tNUMERIC", "tBOOLEAN", "tSTRING", "tPATTERN", "tTIME", "tVARIABLE"}

SourceOperands ==
    LET operands == SelectSeq(tokens, LAMBDA token : token.Kind \in OperandKinds) IN
    [i \in DOMAIN operands |->
        Label(IF operands[i].Kind = "tVARIABLE" THEN "tVALUE" ELSE "tLITERAL",
              operands[i].Value)]

\* The SEPARATE stages over nothing but literals, and the literals of such a
\* list from left to right.
LiteralLists ==
    { s \in StagesOf("tSEPARATE") :
        \A u \in Subtree(evaluationStages.heap, s) :
            Symbol(u) \in {"tSEPARATE", "tLITERAL"} }

ListValues(s) ==
    LET leaves == InOrder(evaluationStages.heap, s, Len(evaluationStages.heap)) IN
    [i \in DOMAIN leaves |-> leaves[i].arg]

\* C19: after reorderStages the stages reachable from the root are the
\* stages planTokens made, the root has no parent and every other stage
\* exactly one, no stage is below itself, LITERAL and variable stages have
\* no children, the operand leaves from left to right are the operands in
\* source order (where planTokens has consumed every token), and a list of
\* literals evaluates to its elements in source order.
C19_ReorderKeepsTree ==
    pc = "elideLiterals" =>
        LET planned == planTokens(tokens, 0, <<>>)
            heap == evaluationStages.heap
            root == evaluationStages.stage
        IN  /\ Reachable(heap, root) = Reachable(planned.heap, planned.stage)
            /\ \A s \in Reachable(heap, root) :
                   Cardinality(Parents(heap, root, s)) = IF s = root THEN 0 ELSE 1
            /\ Acyclic(heap, root)
            /\ \A s \in Reachable(heap, root) :
                   heap[s].symbol \in OperandSymbols => Children(heap, s) = {}
            /\ InOrder(heap, root, Len(heap))
                   = InOrder(planned.heap, planned.stage, Len(planned.heap))
            /\ TakesEveryToken(tokens)
                   => InOrder(heap, root, Len(heap)) = SourceOperands
            /\ \A s \in LiteralLists : SubResult(s).val = Array(ListValues(s))

\* reorderStages has mirrored the SEPARATE stages of f ( 1 , 2 , 3 ): the
\* planned list was right-nested, the reordered one is left-nested and
\* evaluates to 1, 2, 3.
C19_Witness ==
    /\ pc = "elideLiterals"
    /\ inputExpression = <<"f", "(", "1", ",", "2", ",", "3", ")">>
    /\ LET planned == planTokens(tokens, 0, <<>>)
           list == Right(Right(evaluationStages.stage))
       IN  /\ TakesEveryToken(tokens)
           /\ planned.heap # evaluationStages.heap
           /\ planned.heap[list].leftStage # 0
           /\ planned.heap[planned.heap[list].leftStage].symbol = "tLITERAL"
           /\ Symbol(Left(list)) = "tSEPARATE"
           /\ Symbol(Right(list)) = "tLITERAL"
           /\ SubResult(list).val = Array(<<Num(1), Num(2), Num(3)>>)


(***************************************************************************)
(* Folding one stage.  elideLiterals calls elideStage on every stage of the *)
(* tree, children first; the stages it was called on stay in the heap, so   *)
(* the heaps before and after elideLiterals hold every stage elideStage     *)
(* met, with the children it met them with.                                 *)
(***************************************************************************)
\* The value a LITERAL stage holds.
LiteralValue(stage) == stage.operator.arg

\* What the operator of stage s returns for the values of its two literal
\* children.
FoldedValue(heap, s) ==
    applyOperator(heap[s].operator, LiteralValue(heap[heap[s].leftStage]),
                  LiteralValue(heap[heap[s].rightStage]), tDUMMY_PARAMETERS)

\* The type checks of stage s pass on the values of its two literal children.
FoldChecksPass(heap, s) ==
    LET left == LiteralValue(heap[heap[s].leftStage])
        right == LiteralValue(heap[heap[s].rightStage])
    IN  /\ heap[s].leftTypeCheck # "nil" => applyCheck(heap[s].leftTypeCheck, left)
        /\ heap[s].rightTypeCheck # "nil" => applyCheck(heap[s].rightTypeCheck, right)
        /\ heap[s].typeCheck # "nil" => applyCombinedCheck(heap[s].typeCheck, left, right)

Foldable(heap, s) ==
    /\ heap[s].leftStage # 0
    /\ heap[s].rightStage # 0
    /\ heap[heap[s].leftStage].symbol = "tLITERAL"
    /\ heap[heap[s].rightStage].symbol = "tLITERAL"
    /\ heap[s].symbol \notin {"tSEPARATE", "tIN"}
    /\ FoldChecksPass(heap, s)
    /\ FoldedValue(heap, s).err = NoError

C20_NotFolded ==
    /\ pc = "compiled"
    /\ inputExpression = <<"1", "-", "true">>
    /\ evaluationStages.heap[evaluationStages.stage].symbol = "tMINUS"
    /\ ~FoldChecksPass(evaluationStages.heap, evaluationStages.stage)
    /\ Len(evaluationStages.heap) = 3


(***************************************************************************)
(* What the planner does with the token lists the two gates accept.  At     *)
(* pc = "reorderStages" checkBalance and checkExpressionSyntax have         *)
(* accepted the tokens and planTokens has returned their tree.              *)
(***************************************************************************)
OperandTokenKinds ==
    {"tNUMERIC", "tBOOLEAN", "tSTRING", "tPATTERN", "tTIME", "tVARIABLE", "tACCESSOR"}

OperatorTokenKinds ==
    {"tPREFIX", "tMODIFIER", "tCOMPARATOR", "tLOGICALOP", "tTERNARY", "tSEPARATOR"}

\* The stages of the operands, and the stages of the operators.
OperandStages == StagesOf("tLITERAL") \cup StagesOf("tVALUE") \cup StagesOf("tACCESS")

OperatorStages ==
    TreeStages \ (OperandStages \cup StagesOf("tNOOP") \cup StagesOf("tFUNCTIONAL"))

TokensOf(kinds) == { k \in DOMAIN tokens : tokens[k].Kind \in kinds }

\* C21: planTokens makes a stage of every operand token and of every
\* operator token of an accepted list, and leaves no token unplanned.
C21_EveryTokenPlanned ==
    pc = "reorderStages" =>
        /\ Cardinality(OperandStages) = Cardinality(TokensOf(OperandTokenKinds))
        /\ Cardinality(OperatorStages) = Cardinality(TokensOf(OperatorTokenKinds))
        /\ TakesEveryToken(tokens)

\* The same for the lists in which no CLAUSE_CLOSE stands outside every
\* clause and no CLAUSE_CLOSE is followed by an operand or a CLAUSE.
NoOperandAfterClause ==
    \A k \in DOMAIN tokens :
        (k < Len(tokens) /\ tokens[k].Kind = "tCLAUSE_CLOSE")
            => tokens[k + 1].Kind \notin OperandTokenKinds \cup {"tCLAUSE"}

C21_NestedTokensPlanned ==
    (pc = "reorderStages" /\ Nested(tokens, 1, 0) /\ NoOperandAfterClause) =>
        /\ Cardinality(OperandStages) = Cardinality(TokensOf(OperandTokenKinds))
        /\ Cardinality(OperatorStages) = Cardinality(TokensOf(OperatorTokenKinds))
        /\ TakesEveryToken(tokens)

\* planTokens has returned the tree of ( 2 ) x: the clause alone, one NOOP
\* stage over the literal; x has no stage.
C21_TokensIgnored ==
    /\ pc = "reorderStages"
    /\ inputExpression = <<"(", "2", ")", "x">>
    /\ Term(evaluationStages.heap, evaluationStages.stage)
           = << Label("tNOOP", Nil), NilLabel,
                Label("tLITERAL", Num(2)), NilLabel, NilLabel >>
    /\ Len(evaluationStages.heap) = 2
    /\ TokensOf({"tVARIABLE"}) = {4}
    /\ StagesOf("tVALUE") = {}


\* The tokens before position k hold at least as many CLAUSE tokens as
\* CLAUSE_CLOSE tokens, for every k.
ClosesMatchOpens ==
    \A k \in 0..Len(tokens) :
        CountOf(KindsOf(SubSeq(tokens, 1, k)), "tCLAUSE_CLOSE")
            <= CountOf(KindsOf(SubSeq(tokens, 1, k)), "tCLAUSE")

\* The two gates have accepted the tokens.
Accepted == pc \in {"optimizeTokens", "planTokens", "reorderStages", "elideLiterals",
                    "compiled", "evaluated"}

\* C22: in every token list that checkBalance and checkExpressionSyntax
\* accept, no prefix holds more CLAUSE_CLOSE tokens than CLAUSE tokens.
C22_AcceptedIsNested == Accepted => ClosesMatchOpens

\* What the gates do give: as many CLAUSE_CLOSE tokens as CLAUSE tokens in
\* the whole list, and no CLAUSE_CLOSE in first place.
C22_AcceptedIsBalanced ==
    Accepted =>
        /\ CountOf(KindsOf(tokens), "tCLAUSE_CLOSE") = CountOf(KindsOf(tokens), "tCLAUSE")
        /\ tokens # <<>> => tokens[1].Kind # "tCLAUSE_CLOSE"

\* 2 ) - ( x has compiled: its CLAUSE_CLOSE stands before its CLAUSE.
C22_CloseBeforeOpen ==
    /\ pc = "compiled"
    /\ inputExpression = <<"2", ")", "-", "(", "x">>
    /\ KindsOf(tokens) = <<"tNUMERIC", "tCLAUSE_CLOSE", "tMODIFIER", "tCLAUSE", "tVARIABLE">>
    /\ err = ""
    /\ ~ClosesMatchOpens


Range(f) == { f[x] : x \in DOMAIN f }

\* The symbols of the stages planPrecedenceLevel makes of two operands, and
\* of the stages it makes of a prefix.
BinarySymbols ==
    Range(comparatorSymbols) \cup Range(logicalSymbols) \cup Range(modifierSymbols)
    \cup Range(ternarySymbols) \cup Range(separatorSymbols)

PrefixStageSymbols == Range(prefixSymbols)

\* C23: in the tree planned from an accepted token list every stage of a
\* binary operator has a left and a right child, and every prefix stage has
\* a right child.
C23_OperatorsHaveOperands ==
    pc = "reorderStages" =>
        \A s \in TreeStages :
            /\ Symbol(s) \in BinarySymbols => Left(s) # 0 /\ Right(s) # 0
            /\ Symbol(s) \in PrefixStageSymbols => Right(s) # 0

\* The same for the lists with properly nested parentheses in which no
\* CLAUSE_CLOSE follows a CLAUSE or an operator.
NoEmptyClause ==
    \A k \in DOMAIN tokens :
        (k < Len(tokens) /\ tokens[k].Kind \in {"tCLAUSE"} \cup OperatorTokenKinds)
            => tokens[k + 1].Kind # "tCLAUSE_CLOSE"

C23_NestedOperatorsHaveOperands ==
    (pc = "reorderStages" /\ Nested(tokens, 1, 0) /\ NoEmptyClause) =>
        \A s \in TreeStages :
            /\ Symbol(s) \in BinarySymbols => Left(s) # 0 /\ Right(s) # 0
            /\ Symbol(s) \in PrefixStageSymbols => Right(s) # 0


\* planTokens has returned the tree of ( x - ): the MINUS stage has x as
\* its left child and no right child.
C23_OperatorWithoutOperand ==
    /\ pc = "reorderStages"
    /\ inputExpression = <<"(", "x", "-", ")">>
    /\ KindsOf(tokens) = <<"tCLAUSE", "tVARIABLE", "tMODIFIER", "tCLAUSE_CLOSE">>
    /\ Term(evaluationStages.heap, evaluationStages.stage)
           = << Label("tNOOP", Nil), NilLabel,
                Label("tMINUS", Nil),
                Label("tVALUE", Str("x")), NilLabel, NilLabel,
                NilLabel >>


(***************************************************************************)
(* The cursor of the planner's token stream.  next() and rewind() move it   *)
(* by one, and next() panics below 0 and at the token count, so a cursor    *)
(* that has left 0..count either makes the next next() panic or is still    *)
(* outside when planTokens returns: the cursor stays inside during planning *)
(* exactly when planTokens neither panics nor returns with its cursor       *)
(* outside.                                                                 *)
(***************************************************************************)
\* Sources of up to MaxLen + 1 lexemes with clauses, calls, prefixes and
\* operators, well formed or not.
CursorLexicon == {"2", "x", "f", "(", ")", "-", ","}

CursorExpressions == UNION { [1..n -> CursorLexicon] : n \in 0..MaxLen + 1 }

InitCursor == Start(CursorExpressions)

SpecCursor == InitCursor /\ [][Next]_vars

\* C24: for every accepted token list planTokens ends without an index
\* panic and with its cursor between 0 and the token count.
C24_CursorInBounds ==
    /\ err # IndexPanic
    /\ pc \in {"planTokens", "reorderStages"} =>
           LET planned == planTokens(tokens, 0, <<>>) IN
           /\ planned.err # IndexPanic
           /\ planned.index \in 0..Len(tokens)


\* planTokens has planned f ( x ): planFunction and planValue have called
\* next() without asking hasNext(), and the levels that found the stream
\* exhausted have rewound the cursor from 4 to 3.
C24_Witness ==
    /\ pc = "reorderStages"
    /\ inputExpression = <<"f", "(", "x", ")">>
    /\ Symbol(evaluationStages.stage) = "tFUNCTIONAL"
    /\ Symbol(Right(evaluationStages.stage)) = "tNOOP"
    /\ TakesEveryToken(tokens)
    /\ planTokens(tokens, 0, <<>>).err = ""
    /\ planTokens(tokens, 0, <<>>).index = Len(tokens) - 1
====
